---------------------------- MODULE Spec2Model ----------------------------
(***************************************************************************)
(* vitepress-linkcard: a markdown-it plugin that turns links written as    *)
(* [text](@:url) into preview cards.  The model follows the source:        *)
(*   - the metadata extractor (assemble/parser, assemble/url),             *)
(*   - the card renderer (assemble/html, assemble/style),                  *)
(*   - the fetcher (assemble/xhr) and the persistent cache                 *)
(*     (assemble/local-file-cache, assemble/metadata),                     *)
(*   - the markdown integration (link-to-card-plugin).                     *)
(* JavaScript strings are TLA+ strings; `undefined' is the empty tuple and *)
(* a defined string s is the one-element tuple <<s>>.                      *)
(***************************************************************************)
EXTENDS Integers, Sequences, FiniteSets, TLC

(***************************************************************************)
(* Bounds of the model.                                                    *)
(***************************************************************************)
\* Elements per page text.
MaxTags == 2
\* Segments (a text, a link with its text) per inline token sequence.
MaxSegs == 3

(***************************************************************************)
(* JavaScript values.                                                      *)
(***************************************************************************)
Undefined == <<>>
Str(s) == <<s>>
isString(v) == v # Undefined
Truthy(v) == v # Undefined /\ v # <<"">>
\* The element of a one-element set: {e : x \in {v}} names a value once, the way
\* a const of the source does.
Only(S) == CHOOSE x \in S : TRUE

(***************************************************************************)
(* String helpers.                                                         *)
(***************************************************************************)
Ch(s, i) == IF 1 <= i /\ i <= Len(s) THEN SubSeq(s, i, i) ELSE ""
StartsAt(s, i, lit) ==
  /\ i >= 1
  /\ i + Len(lit) - 1 <= Len(s)
  /\ SubSeq(s, i, i + Len(lit) - 1) = lit
MinOf(S) == CHOOSE x \in S : \A y \in S : x <= y
MaxOf(S) == CHOOSE x \in S : \A y \in S : x >= y
\* Index of the first occurrence of lit at or after from; 0 when there is none.
FirstIndex(s, lit, from) ==
  LET c == {i \in from..Len(s) : StartsAt(s, i, lit)}
  IN  IF c = {} THEN 0 ELSE MinOf(c)

Lower == {"a","b","c","d","e","f","g","h","i","j","k","l","m",
          "n","o","p","q","r","s","t","u","v","w","x","y","z"}
Upper == {"A","B","C","D","E","F","G","H","I","J","K","L","M",
          "N","O","P","Q","R","S","T","U","V","W","X","Y","Z"}
Digit == {"0","1","2","3","4","5","6","7","8","9"}
\* [A-Za-z]
Letter == Lower \cup Upper
\* \w
WordChar == Letter \cup Digit \cup {"_"}
\* \s
Space == {" ", "\t", "\n", "\r"}
\* . does not match a line terminator
LineTerminator == {"\n", "\r"}
\* the character class ['|"] (and ["|']): both quotes and the bar
QuoteClass == {"'", "|", "\""}
\* ([a-zA-Z]|:|\s)
AttrPrefixClass == Letter \cup {":"} \cup Space

(***************************************************************************)
(* assemble/url                                                            *)
(***************************************************************************)
SpecialScheme == {"http", "https", "ftp", "ws", "wss"}
SchemeChar == Letter \cup Digit \cup {"+", "-", "."}

\* new URL(url): the parsed URL, or the TypeError it throws.  A URL needs a
\* scheme; a special scheme needs a host.  The origin of a special scheme is
\* scheme://host, any other origin is the string "null".
extractUrl(url) ==
  LET colon == FirstIndex(url, ":", 1)
      scheme == SubSeq(url, 1, colon - 1)
      hasScheme == /\ colon > 1
                   /\ Ch(url, 1) \in Letter
                   /\ \A i \in 2..(colon - 1) : Ch(url, i) \in SchemeChar
      rest == colon + 1
      slashEnd == IF {i \in rest..Len(url) : Ch(url, i) \notin {"/", "\\"}} = {}
                  THEN Len(url) + 1
                  ELSE MinOf({i \in rest..Len(url) : Ch(url, i) \notin {"/", "\\"}})
      hostStops == {i \in slashEnd..Len(url) : Ch(url, i) \in {"/", "\\", "?", "#"}}
      hostEnd == IF hostStops = {} THEN Len(url) ELSE MinOf(hostStops) - 1
      host == SubSeq(url, slashEnd, hostEnd)
  IN  IF ~hasScheme THEN [kind |-> "TypeError", origin |-> ""]
      ELSE IF scheme \in SpecialScheme
           THEN IF host = "" THEN [kind |-> "TypeError", origin |-> ""]
                ELSE [kind |-> "URL", origin |-> scheme \o "://" \o host]
           ELSE [kind |-> "URL", origin |-> "null"]

\* str.replace(/pat/g, rep) for a literal pat: every occurrence, left to
\* right, the search going on after the occurrence just replaced.
RECURSIVE ReplaceAll(_, _, _)
ReplaceAll(str, pat, rep) ==
  LET i == FirstIndex(str, pat, 1)
  IN  IF i = 0 THEN str
      ELSE SubSeq(str, 1, i - 1) \o rep
             \o ReplaceAll(SubSeq(str, i + Len(pat), Len(str)), pat, rep)

\* path.replace(/\/\//g, '/')
cleanPath(path) == ReplaceAll(path, "//", "/")

(***************************************************************************)
(* assemble/parser                                                         *)
(***************************************************************************)
DEFAULT_LOGO == "https://resources.whatwg.org/logo-url.svg"

\* \w+=['|"]([a-zA-Z]|:|\s)*<attr>['|"] with <attr> starting at p, all of it
\* inside s[lo..hi].
AttrValueAt(s, p, attr, lo, hi) ==
  /\ StartsAt(s, p, attr)
  /\ p + Len(attr) <= hi
  /\ Ch(s, p + Len(attr)) \in QuoteClass
  /\ \E q \in (lo + 2)..(p - 1) :
       /\ Ch(s, q) \in QuoteClass
       /\ Ch(s, q - 1) = "="
       /\ Ch(s, q - 2) \in WordChar
       /\ \A r \in (q + 1)..(p - 1) : Ch(s, r) \in AttrPrefixClass

\* The regular expression <tag\s[^>]*\w+=['|"]([a-zA-Z]|:|\s)*attr['|"][^>]*\/?>
\* tried at position i: the end of the match, or 0.
SelfLosingTagAt(s, i, attr, tag) ==
  LET open == "<" \o tag
      lo == i + Len(open) + 1
      gt == FirstIndex(s, ">", lo)
  IN  IF /\ StartsAt(s, i, open)
         /\ Ch(s, i + Len(open)) \in Space
         /\ gt > 0
         /\ \E p \in lo..(gt - 1) : AttrValueAt(s, p, attr, lo, gt - 1)
      THEN gt
      ELSE 0

\* htmlString.match(containArrSelfLosingHtmlTagReg(attr, tag)): the first
\* match (metas[0]) or Undefined (null).
containArrSelfLosingHtmlTagReg(htmlString, attr, tag) ==
  LET starts == {i \in 1..Len(htmlString) :
                   SelfLosingTagAt(htmlString, i, attr, tag) > 0}
  IN  IF starts = {} THEN Undefined
      ELSE LET i == MinOf(starts)
           IN  Str(SubSeq(htmlString, i, SelfLosingTagAt(htmlString, i, attr, tag)))

\* name=["|']([^>]*)["|']: the capture is greedy, it runs to the last
\* character of the quote class before the next ">".
AttrValueEnd(t, k, name) ==
  LET from == k + Len(name) + 1
      gt == FirstIndex(t, ">", from)
      limit == IF gt = 0 THEN Len(t) ELSE gt - 1
      ends == {e \in from..limit : Ch(t, e) \in QuoteClass}
  IN  IF /\ StartsAt(t, k, name)
         /\ Ch(t, k + Len(name)) \in QuoteClass
         /\ ends # {}
      THEN MaxOf(ends)
      ELSE 0

AttrValueReg(t, name) ==
  LET starts == {k \in 1..Len(t) : AttrValueEnd(t, k, name) > 0}
  IN  IF starts = {} THEN Undefined
      ELSE LET k == MinOf(starts)
           IN  Str(SubSeq(t, k + Len(name) + 1, AttrValueEnd(t, k, name) - 1))

\* tag.match(ContentAttrValueHtmlMetaTagReg): content[1] or Undefined.
ContentAttrValueHtmlMetaTagReg(t) == AttrValueReg(t, "content=")

\* tag.match(HrefAttrValueHtmlLinkTagReg): content[1] or Undefined.
HrefAttrValueHtmlLinkTagReg(t) == AttrValueReg(t, "href=")

\* (.*) matches no line terminator.
NoLineBreak(s, from, to) == \A r \in from..to : Ch(s, r) \notin LineTerminator

\* <title\s*[^>]*>(.*)<\/title> tried at i: the end of the match, or 0.
HtmlTitleTagAt(s, i) ==
  LET gt == FirstIndex(s, ">", i + 6)
      closes == {e \in (gt + 1)..Len(s) :
                   StartsAt(s, e, "</title>") /\ NoLineBreak(s, gt + 1, e - 1)}
  IN  IF StartsAt(s, i, "<title") /\ gt > 0 /\ closes # {}
      THEN MaxOf(closes) + 7
      ELSE 0

\* htmlString.match(HtmlTitleTagReg)[0]: the first match, or Undefined.
HtmlTitleTagReg(htmlString) ==
  LET starts == {i \in 1..Len(htmlString) : HtmlTitleTagAt(htmlString, i) > 0}
  IN  IF starts = {} THEN Undefined
      ELSE LET i == MinOf(starts)
           IN  Str(SubSeq(htmlString, i, HtmlTitleTagAt(htmlString, i)))

\* The end of <\/[A-Za-z]+> starting at e, or 0.
CloseTagEnd(s, e) ==
  LET gt == FirstIndex(s, ">", e + 3)
  IN  IF /\ StartsAt(s, e, "</")
         /\ gt > 0
         /\ \A r \in (e + 2)..(gt - 1) : Ch(s, r) \in Letter
      THEN gt
      ELSE 0

\* (<[A-Za-z]+\s*[^>]*>(.*)<\/[A-Za-z]+>) tried at i: the start of the
\* closing tag that ends capture 2, or 0.
HtmlTagContentAt(s, i) ==
  LET gt == FirstIndex(s, ">", i + 2)
      closes == {e \in (gt + 1)..Len(s) :
                   CloseTagEnd(s, e) > 0 /\ NoLineBreak(s, gt + 1, e - 1)}
  IN  IF /\ Ch(s, i) = "<"
         /\ Ch(s, i + 1) \in Letter
         /\ gt > 0
         /\ closes # {}
      THEN MaxOf(closes)
      ELSE 0

\* t.match(HtmlTagContentReg): content[2] or Undefined.
HtmlTagContentReg(t) ==
  LET starts == {i \in 1..Len(t) : HtmlTagContentAt(t, i) > 0}
  IN  IF starts = {} THEN Undefined
      ELSE LET i == MinOf(starts)
           IN  Str(SubSeq(t, FirstIndex(t, ">", i + 2) + 1, HtmlTagContentAt(t, i) - 1))

\* A title match that falls back to the <title> element whenever the meta tag
\* gave no content.
matchTitleByMetaTag_FallsBack(htmlString) ==
  LET metas == containArrSelfLosingHtmlTagReg(htmlString, "title", "meta")
      content == IF metas # Undefined THEN ContentAttrValueHtmlMetaTagReg(metas[1])
                 ELSE Undefined
      titleHtmlTag == HtmlTitleTagReg(htmlString)
  IN  IF content # Undefined THEN content
      ELSE IF titleHtmlTag # Undefined THEN HtmlTagContentReg(titleHtmlTag[1])
      ELSE Undefined

matchTitleByMetaTag(htmlString) ==
  LET metas == containArrSelfLosingHtmlTagReg(htmlString, "title", "meta")
  IN  IF metas # Undefined
      THEN ContentAttrValueHtmlMetaTagReg(metas[1])
      ELSE LET titleHtmlTag == HtmlTitleTagReg(htmlString)
           IN  IF titleHtmlTag # Undefined
               THEN HtmlTagContentReg(titleHtmlTag[1])
               ELSE Undefined

matchDescriptionByMetaTag(htmlString) ==
  LET metas == containArrSelfLosingHtmlTagReg(htmlString, "description", "meta")
  IN  IF metas # Undefined
      THEN ContentAttrValueHtmlMetaTagReg(metas[1])
      ELSE Undefined

matchLogoByLinkOrMetaTag(htmlString) ==
  LET metas == containArrSelfLosingHtmlTagReg(htmlString, "image", "meta")
  IN  IF metas # Undefined
      THEN ContentAttrValueHtmlMetaTagReg(metas[1])
      ELSE LET linkHtmlTags == containArrSelfLosingHtmlTagReg(htmlString, "icon", "link")
           IN  IF linkHtmlTags # Undefined
               THEN HrefAttrValueHtmlLinkTagReg(linkHtmlTags[1])
               ELSE Undefined

\* absolute(logo) joining the origin and the path whatever the candidate is.
absolute_AlwaysJoins(logo, url) ==
  IF ~Truthy(logo) THEN [threw |-> FALSE, value |-> DEFAULT_LOGO]
  ELSE LET o == extractUrl(url)
       IN  IF o.kind = "TypeError" THEN [threw |-> TRUE, value |-> ""]
           ELSE [threw |-> FALSE, value |-> o.origin \o cleanPath("/" \o logo[1])]

\* absolute(logo): [threw |-> TRUE] when new URL(logo) throws, else the logo.
\* extractUrl(logo) either throws or yields a URL object, which is truthy, so
\* the branch that joins the origin and the cleaned path is never taken.
absolute(logo, url) ==
  IF ~Truthy(logo) THEN [threw |-> FALSE, value |-> DEFAULT_LOGO]
  ELSE LET u == extractUrl(logo[1])
       IN  IF u.kind = "TypeError" THEN [threw |-> TRUE, value |-> ""]
           ELSE IF u.kind = "URL" THEN [threw |-> FALSE, value |-> logo[1]]
           ELSE LET o == extractUrl(url)
                IN  IF o.kind = "TypeError" THEN [threw |-> TRUE, value |-> ""]
                    ELSE [threw |-> FALSE,
                          value |-> o.origin \o cleanPath("/" \o logo[1])]

isEmptyStringObject(obj) ==
  Cardinality({k \in DOMAIN obj : isString(obj[k])}) = 0

\* parserMetadata(htmlString, url): [kind |-> "record", value |-> metadata],
\* [kind |-> "null"] or [kind |-> "throw"] (the TypeError of new URL).
NoMetadata == [title |-> Undefined, description |-> Undefined, logo |-> Undefined]
parserMetadata(htmlString, url) ==
  LET logo == absolute(matchLogoByLinkOrMetaTag(htmlString), url)
      metadata == [title |-> matchTitleByMetaTag(htmlString),
                   description |-> matchDescriptionByMetaTag(htmlString),
                   logo |-> Str(logo.value)]
  IN  IF logo.threw THEN [kind |-> "throw", value |-> NoMetadata]
      ELSE IF isEmptyStringObject(metadata) THEN [kind |-> "null", value |-> NoMetadata]
      ELSE [kind |-> "record", value |-> metadata]

(***************************************************************************)
(* assemble/style                                                          *)
(***************************************************************************)
\* STYLE(): inlineStyle(...) of each part, the properties hyphenated and
\* joined; a property whose value is 0 (flexShrink) is dropped by join.
STYLE ==
  [a |-> "style=\"color: unset !important; display: block; width: 100%; text-decoration: none;\"",
   container |-> "style=\"display: flex; align-items: center; flex-wrap: wrap; gap: 10px; border-radius: 12px; border: 1px solid var(--vp-c-bg-soft); background-color: var(--vp-c-bg-soft); box-sizing: border-box; width: 100%; height: 130px; transition: border-color 0.25s, background-color 0.25s;\"",
   img |-> "style=\"border-radius: 0px 12px 12px 0px; max-width: 40%; height: 128px; object-fit: contain; overflow: hidden;\"",
   texts |-> "style=\"flex: 1 1 0%; min-width: 0;\"",
   title |-> "style=\"-webkit-box-orient: vertical; -webkit-line-clamp: 2; display: -webkit-box; hyphens: auto; line-clamp: 2; overflow: hidden; overflow-wrap: anywhere; text-overflow: ellipsis; word-break: break-word; opacity: 1; font-size: 16px; line-height: 22px; margin: 0 16px 8px 16px; font-weight: bold;\"",
   domain |-> "style=\"-webkit-box-orient: vertical; -webkit-line-clamp: 1; display: -webkit-box; hyphens: auto; line-clamp: 1; overflow: hidden; overflow-wrap: anywhere; text-overflow: ellipsis; word-break: break-word; opacity: 1; font-size: 12px; line-height: 16px; margin: 8px 16px 8px 16px; text-decoration: underline;\"",
   description |-> "style=\"-webkit-box-orient: vertical; -webkit-line-clamp: 2; display: -webkit-box; hyphens: auto; line-clamp: 2; overflow: hidden; overflow-wrap: anywhere; text-overflow: ellipsis; word-break: break-word; opacity: 0.8; font-size: 12px; line-height: 16px; margin: 8px 16px 0px 16px;\""]

\* classNames(prefix)
classNames(prefix) ==
  [container |-> prefix \o "__container",
   img |-> prefix \o "__img",
   texts |-> prefix \o "__texts",
   title |-> prefix \o "__texts--title",
   domain |-> prefix \o "__texts--domain",
   description |-> prefix \o "__texts--desc"]

(***************************************************************************)
(* assemble/html                                                           *)
(***************************************************************************)
\* str.replace(pat, rep) for a string pat: the first occurrence only.
ReplaceFirst(str, pat, rep) ==
  LET i == FirstIndex(str, pat, 1)
  IN  IF pat = "" THEN rep \o str
      ELSE IF i = 0 THEN str
      ELSE SubSeq(str, 1, i - 1) \o rep \o SubSeq(str, i + Len(pat), Len(str))

\* str.split(':')[0]
SplitFirst(str, sep) ==
  LET i == FirstIndex(str, sep, 1)
  IN  IF i = 0 THEN str ELSE SubSeq(str, 1, i - 1)

\* The property k of an object, Undefined when the object has no such key.
Get(obj, k) == IF k \in DOMAIN obj THEN obj[k] ELSE Undefined

\* `${v}` of a string or undefined
Interpolate(v) == IF v = Undefined THEN "undefined" ELSE v[1]

\* escapeHTML of generateCardDomFragment: it replaces each entity by its
\* character, one entity after the other.
escapeHTML(str) ==
  ReplaceAll(ReplaceAll(ReplaceAll(ReplaceAll(ReplaceAll(str,
    "&amp;", "&"), "&lt;", "<"), "&gt;", ">"), "&quot;", "\""), "&#039;", "'")

\* new URL(url).origin.replace(/^https?:\/\//, '').replace(/^www\./, '') || 'Unknown domain'
DomainOf(origin) ==
  LET noScheme == IF StartsAt(origin, 1, "https://") THEN SubSeq(origin, 9, Len(origin))
                  ELSE IF StartsAt(origin, 1, "http://") THEN SubSeq(origin, 8, Len(origin))
                  ELSE origin
      noWww == IF StartsAt(noScheme, 1, "www.") THEN SubSeq(noScheme, 5, Len(noScheme))
               ELSE noScheme
  IN  IF noWww = "" THEN "Unknown domain" ELSE noWww

\* The title shown: the GitHub clean-up on github.com, the title or 'No title'.
CardTitle(data, domain) ==
  LET t == Get(data, "title")
  IN  IF domain = "github.com"
      THEN LET cut == IF t = Undefined THEN Undefined
                      ELSE Str(ReplaceFirst(SplitFirst(t[1], ":"), "GitHub - ", ""))
           IN  IF Truthy(cut) THEN cut[1] ELSE "No title"
      ELSE IF Truthy(t) THEN t[1] ELSE "No title"

\* The description shown.
CardDescription(data, domain, title) ==
  LET d == Get(data, "description")
  IN  IF domain = "github.com"
      THEN LET cut == IF d = Undefined THEN Undefined
                      ELSE Str(ReplaceFirst(ReplaceFirst(d[1], " - " \o title, ""),
                                 "Contribute to " \o title
                                   \o " development by creating an account on GitHub.", ""))
           IN  IF Truthy(cut) THEN cut[1] ELSE ""
      ELSE IF Truthy(d) THEN d[1] ELSE ""

\* generateCardDomFragment(data, options): [threw |-> TRUE] when new URL(href)
\* throws, else the fragment.  The styles are always STYLE(): options.classPrefix
\* is not read.
generateCardDomFragment(data, options) ==
  LET aa == [rel |-> "rel=\"noopener noreferrer\"",
             target |-> "target=\"" \o options.target \o "\"",
             href |-> "href=\"" \o options.href \o "\"",
             title |-> "title=\"" \o options.linkTitle \o "\""]
      style == STYLE
      u == extractUrl(options.href)
      domain == DomainOf(u.origin)
      title == CardTitle(data, domain)
      description == CardDescription(data, domain, title)
  IN  IF u.kind = "TypeError" THEN [threw |-> TRUE, html |-> ""]
      ELSE [threw |-> FALSE, html |->
        "<span style=\"display:block;\">\n"
        \o "  <a " \o aa.rel \o " " \o aa.target \o " " \o aa.href \o " " \o aa.title
             \o " " \o style.a \o ">\n"
        \o "    <span class=\"vitepress-linkcard-container\" " \o style.container \o ">\n"
        \o "      <span " \o style.texts \o ">\n"
        \o "        <span " \o style.title \o ">\n"
        \o "          " \o escapeHTML(title) \o "\n"
        \o "        </span>\n"
        \o "        <span " \o style.domain \o ">\n"
        \o "          " \o escapeHTML(domain) \o "\n"
        \o "        </span>\n"
        \o "        <span " \o style.description \o ">\n"
        \o "          " \o escapeHTML(description) \o "\n"
        \o "        </span>\n"
        \o "      </span>\n"
        \o "      <img src=\"" \o Interpolate(Get(data, "logo")) \o "\" " \o style.img \o "/>\n"
        \o "    </span>\n"
        \o "  </a>\n"
        \o "</span>"]

(***************************************************************************)
(* assemble/local-file-cache                                               *)
(*                                                                         *)
(* The file system holds the two paths CONFIG_FILE looks at.  A path holds *)
(* no file (NoFile) or <<text>>.  A text is kept as what JSON.parse makes  *)
(* of it together with its layout: [kind, layout, value], kind "json" for  *)
(* parsable text, "garbage" for text JSON.parse rejects, "blank" for empty *)
(* or white text, which JSON.parse rejects too.  A JSON value is           *)
(* an object [type |-> "object", entries |-> function from keys to values] *)
(* or something that is no object.                                         *)
(***************************************************************************)
NoFile == <<>>
Paths == {"default", "fallback"}

JsonObject(entries) == [type |-> "object", entries |-> entries]
JsonArray == [type |-> "array", entries |-> <<>>]
JsonText(layout, value) == [kind |-> "json", layout |-> layout, value |-> value]
GarbageText == [kind |-> "garbage", layout |-> "raw", value |-> JsonArray]

\* JSON.stringify leaves out the properties whose value is undefined.
DropUndefined(obj) == [k \in {k \in DOMAIN obj : obj[k] # Undefined} |-> obj[k]]
\* A serialisation that keeps the properties whose value is undefined.
JSONstringify_KeepsUndefined(entries, indent) ==
  JsonText(IF indent = 2 THEN "indent2" ELSE "compact", JsonObject(entries))

\* JSON.stringify(value, null, indent): indent 0 is the compact layout.
JSONstringify(entries, indent) ==
  JsonText(IF indent = 2 THEN "indent2" ELSE "compact",
           JsonObject([u \in DOMAIN entries |-> DropUndefined(entries[u])]))
\* A parse that takes any text that is no JSON for an empty object.
JSONparse_Lenient(text) ==
  IF text.kind = "json" THEN [threw |-> FALSE, value |-> text.value]
  ELSE [threw |-> FALSE, value |-> [type |-> "object", entries |-> <<>>]]

\* JSON.parse(text)
JSONparse(text) ==
  IF text.kind = "json" THEN [threw |-> FALSE, value |-> text.value]
  ELSE [threw |-> TRUE, value |-> JsonArray]
isPureObject(value) == value.type = "object"

\* A merge that keeps nothing of the target.
ObjectAssign_SourceOnly(target, source) == source

\* A merge that drops a key the target already holds.
ObjectAssign_Toggle(target, source) ==
  [k \in (DOMAIN target \cup DOMAIN source) \ (DOMAIN target \cap DOMAIN source) |->
     IF k \in DOMAIN source THEN source[k] ELSE target[k]]

\* Object.assign(target, source)
ObjectAssign(target, source) ==
  [k \in DOMAIN target \cup DOMAIN source |->
     IF k \in DOMAIN source THEN source[k] ELSE target[k]]

initialData ==
  [u \in {"https://example.com/"} |->
     [description |-> Str("Example Website"),
      logo |-> Str("https://example.com/example.png"),
      title |-> Str("Example Title")]]

\* A path choice that looks at the fallback path first.
CONFIG_FILE_FallbackFirst(fs) ==
  IF fs["fallback"] # NoFile THEN [path |-> "fallback", fs |-> fs]
  ELSE IF fs["default"] # NoFile THEN [path |-> "default", fs |-> fs]
  ELSE [path |-> "default",
        fs |-> [fs EXCEPT !["default"] = <<JSONstringify(initialData, 2)>>]]

\* CONFIG_FILE(): the path of the cache file; creates the default file when
\* neither exists.
CONFIG_FILE(fs) ==
  IF fs["default"] # NoFile THEN [path |-> "default", fs |-> fs]
  ELSE IF fs["fallback"] # NoFile THEN [path |-> "fallback", fs |-> fs]
  ELSE [path |-> "default",
        fs |-> [fs EXCEPT !["default"] = <<JSONstringify(initialData, 2)>>]]

\* content.trim(): a trailing newline goes.
Trim(text) ==
  IF text.layout = "indent2nl" THEN [text EXCEPT !.layout = "indent2"] ELSE text

\* format(): rewrites the file with 2-space indentation and a trailing newline.
format(fs) ==
  LET c == CONFIG_FILE(fs)
      content == Trim(c.fs[c.path][1])
      parsed == JSONparse(content)
  IN  IF content.kind = "blank" THEN [threw |-> FALSE, fs |-> c.fs]
      ELSE IF parsed.threw THEN [threw |-> TRUE, fs |-> c.fs]
      ELSE [threw |-> FALSE,
            fs |-> [c.fs EXCEPT ![c.path] = <<JsonText("indent2nl", parsed.value)>>]]

\* readFile(): the parsed object, Undefined when the file holds no object.
readFile(fs) ==
  LET c == CONFIG_FILE(fs)
      data == JSONparse(c.fs[c.path][1])
  IN  IF data.threw THEN [threw |-> TRUE, data |-> Undefined, fs |-> c.fs]
      ELSE [threw |-> FALSE,
            data |-> IF isPureObject(data.value) THEN <<data.value.entries>> ELSE Undefined,
            fs |-> c.fs]

\* A write of the data handed over alone, read and format as in setFile.
setFile_Overwrites(fs, data) ==
  LET r == readFile(fs)
      c == CONFIG_FILE(r.fs)
      written == [c.fs EXCEPT ![c.path] = <<JSONstringify(data, 0)>>]
  IN  IF r.threw THEN [threw |-> TRUE, fs |-> r.fs]
      ELSE format(written)

\* setFile(data)
setFile(fs, data) ==
  LET r == readFile(fs)
      content == IF r.data # Undefined THEN ObjectAssign(r.data[1], data) ELSE data
      c == CONFIG_FILE(r.fs)
      written == [c.fs EXCEPT ![c.path] = <<JSONstringify(content, 0)>>]
  IN  IF r.threw THEN [threw |-> TRUE, fs |-> r.fs]
      ELSE format(written)

\* get(url)
cacheGet(fs, url) ==
  LET r == readFile(fs)
  IN  [threw |-> r.threw,
       value |-> IF r.data # Undefined /\ url \in DOMAIN r.data[1]
                 THEN <<r.data[1][url]>> ELSE Undefined,
       fs |-> r.fs]

\* has(url): !!this.get(url)
cacheHas(fs, url) ==
  LET g == cacheGet(fs, url)
  IN  [threw |-> g.threw, value |-> g.value # Undefined, fs |-> g.fs]

\* set(url, data)
cacheSet(fs, url, data) == setFile(fs, [u \in {url} |-> data])

(***************************************************************************)
(* assemble/xhr                                                            *)
(*                                                                         *)
(* The in-memory cache is a function from the URLs fetched to their text.  *)
(* What the network answers is an input: a response with a status and a    *)
(* text, or an exception raised by the request.                            *)
(***************************************************************************)
MapSet(map, k, v) == [x \in DOMAIN map \cup {k} |-> IF x = k THEN v ELSE map[x]]

\* A fetcher that asks the network whatever its cache holds.
sync_AlwaysRequests(xc, url, resp) ==
  IF resp.kind = "exception"
  THEN [result |-> Undefined, xc |-> xc, requested |-> TRUE]
  ELSE IF resp.status = 200 /\ resp.responseText # ""
       THEN [result |-> Str(resp.responseText),
             xc |-> MapSet(xc, url, resp.responseText),
             requested |-> TRUE]
       ELSE [result |-> Undefined, xc |-> xc, requested |-> TRUE]

\* A fetcher that keeps whatever text was answered, and returns it on a 200 only.
sync_CachesAnyAnswer(xc, url, resp) ==
  IF url \in DOMAIN xc
  THEN [result |-> Str(xc[url]), xc |-> xc, requested |-> FALSE]
  ELSE IF resp.kind = "exception"
       THEN [result |-> Undefined, xc |-> xc, requested |-> TRUE]
       ELSE [result |-> IF resp.status = 200 /\ resp.responseText # ""
                        THEN Str(resp.responseText) ELSE Undefined,
             xc |-> MapSet(xc, url, resp.responseText),
             requested |-> TRUE]

\* A fetcher that takes any answered text for the page, whatever the status.
sync_IgnoresStatus(xc, url, resp) ==
  IF url \in DOMAIN xc
  THEN [result |-> Str(xc[url]), xc |-> xc, requested |-> FALSE]
  ELSE IF resp.kind = "exception" \/ resp.responseText = ""
       THEN [result |-> Undefined, xc |-> xc, requested |-> TRUE]
       ELSE [result |-> Str(resp.responseText),
             xc |-> MapSet(xc, url, resp.responseText),
             requested |-> TRUE]

\* sync(url): result is the text or Undefined; requested says whether a
\* request went out.
sync(xc, url, resp) ==
  IF url \in DOMAIN xc
  THEN [result |-> Str(xc[url]), xc |-> xc, requested |-> FALSE]
  ELSE IF resp.kind = "exception"
       THEN [result |-> Undefined, xc |-> xc, requested |-> TRUE]
       ELSE IF resp.status = 200 /\ resp.responseText # ""
            THEN [result |-> Str(resp.responseText),
                  xc |-> MapSet(xc, url, resp.responseText),
                  requested |-> TRUE]
            ELSE [result |-> Undefined, xc |-> xc, requested |-> TRUE]

\* async(url): outcome is how the promise ends: "resolved" with result,
\* "rejected", or "pending" when neither resolve nor reject is called.  The
\* request is opened with async = false, so send() returns after
\* onreadystatechange has run; responseText is always a string.
async(xc, url, resp) ==
  IF url \in DOMAIN xc
  THEN [outcome |-> "resolved", result |-> Str(xc[url]), xc |-> xc, requested |-> FALSE]
  ELSE IF resp.kind = "exception"
       THEN [outcome |-> "rejected", result |-> Undefined, xc |-> xc, requested |-> TRUE]
       ELSE IF resp.status = 200
            THEN [outcome |-> "resolved", result |-> Str(resp.responseText),
                  xc |-> MapSet(xc, url, resp.responseText), requested |-> TRUE]
            ELSE [outcome |-> "pending", result |-> Undefined, xc |-> xc,
                  requested |-> TRUE]

(***************************************************************************)
(* assemble/metadata                                                       *)
(***************************************************************************)
\* An orchestration that fetches and extracts without returning what the
\* persistent cache holds.
getUrlMetadata_FetchesAlways(fs, xc, url, resp) ==
  Only({
    IF h.threw
    THEN [error |-> "SyntaxError", value |-> Undefined, fs |-> h.fs, xc |-> xc,
          calls |-> <<"cache.has">>]
    ELSE Only({
      IF ~Truthy(x.result)
      THEN [error |-> "", value |-> Undefined, fs |-> h.fs, xc |-> x.xc,
            calls |-> <<"cache.has", "xhr.sync">>]
      ELSE Only({
        IF m.kind = "throw"
        THEN [error |-> "TypeError", value |-> Undefined, fs |-> h.fs, xc |-> x.xc,
              calls |-> <<"cache.has", "xhr.sync", "parserMetadata">>]
        ELSE Only({
          [error |-> IF st.threw THEN "SyntaxError" ELSE "", value |-> <<m.value>>,
           fs |-> st.fs, xc |-> x.xc,
           calls |-> <<"cache.has", "xhr.sync", "parserMetadata", "cache.set">>]
          : st \in {cacheSet(h.fs, url, m.value)}})
        : m \in {parserMetadata(x.result[1], url)}})
      : x \in {sync(xc, url, resp)}})
    : h \in {cacheHas(fs, url)}})

\* getUrlMetadata(url): value is the metadata or Undefined (null); error is
\* "" or the error thrown; calls lists the collaborators called, in order.
getUrlMetadata(fs, xc, url, resp) ==
  Only({
    IF h.threw
    THEN [error |-> "SyntaxError", value |-> Undefined, fs |-> h.fs, xc |-> xc,
          calls |-> <<"cache.has">>]
    ELSE IF h.value
    THEN \* if (cache.has(url)) return cache.get(url)
         Only({
           [error |-> IF g.threw THEN "SyntaxError" ELSE "", value |-> g.value,
            fs |-> g.fs, xc |-> xc, calls |-> <<"cache.has", "cache.get">>]
           : g \in {cacheGet(h.fs, url)}})
    ELSE \* const htmlString = xhr.sync(url)
         Only({
      IF ~Truthy(x.result)
      THEN [error |-> "", value |-> Undefined, fs |-> h.fs, xc |-> x.xc,
            calls |-> <<"cache.has", "xhr.sync">>]
      ELSE \* metadata = parserMetadata(htmlString, url)
           Only({
        IF m.kind = "throw"
        THEN [error |-> "TypeError", value |-> Undefined, fs |-> h.fs, xc |-> x.xc,
              calls |-> <<"cache.has", "xhr.sync", "parserMetadata">>]
        ELSE IF m.kind = "null"
        THEN [error |-> "", value |-> Undefined, fs |-> h.fs, xc |-> x.xc,
              calls |-> <<"cache.has", "xhr.sync", "parserMetadata">>]
        ELSE \* if (metadata) cache.set(url, metadata)
             Only({
          [error |-> IF st.threw THEN "SyntaxError" ELSE "", value |-> <<m.value>>,
           fs |-> st.fs, xc |-> x.xc,
           calls |-> <<"cache.has", "xhr.sync", "parserMetadata", "cache.set">>]
          : st \in {cacheSet(h.fs, url, m.value)}})
        : m \in {parserMetadata(x.result[1], url)}})
      : x \in {sync(xc, url, resp)}})
    : h \in {cacheHas(fs, url)}})

(***************************************************************************)
(* link-to-card-plugin                                                     *)
(*                                                                         *)
(* A token is [type, tag, attrs, content, nesting, hidden]; attrs is a     *)
(* sequence of <<name, value>> pairs.                                      *)
(***************************************************************************)
\* A match that hands on the whole href, the marker with it.
parseCardLinkHref_KeepsMarker(href) ==
  LET match == href # Undefined /\ StartsAt(href[1], 1, "@:")
                 /\ Ch(href[1], 3) \in Letter \cup Digit
  IN  [isCardLink |-> match, url |-> IF match THEN href ELSE Undefined]

\* href?.match(/^(@:)([a-zA-Z0-9]+.*)/): match[2], Undefined without a match.
\* .* stops at a line terminator.
parseCardLinkHref(href) ==
  LET h == href[1]
      breaks == {i \in 3..Len(h) : Ch(h, i) \in LineTerminator}
      stop == IF breaks = {} THEN Len(h) ELSE MinOf(breaks) - 1
      match == href # Undefined /\ StartsAt(h, 1, "@:") /\ Ch(h, 3) \in Letter \cup Digit
  IN  [isCardLink |-> match,
       url |-> IF match THEN Str(SubSeq(h, 3, stop)) ELSE Undefined]

\* token.attrs?.filter((attr) => attr.includes('href'))[0]?.[1]
HrefOf(token) ==
  LET hits == {k \in 1..Len(token.attrs) :
                 token.attrs[k][1] = "href" \/ token.attrs[k][2] = "href"}
  IN  IF hits = {} THEN Undefined ELSE Str(token.attrs[MinOf(hits)][2])

\* A rule that hides no token.
ignoreRestToken_HidesNothing(tokens, i) == tokens

\* ignoreRestToken(tokens, i)
ignoreRestToken(tokens, i) ==
  [index \in 1..Len(tokens) |->
     IF index # i THEN [tokens[index] EXCEPT !.hidden = TRUE] ELSE tokens[index]]

\* joinLinkTitle(tokens): the content of the hidden tokens, joined.
RECURSIVE joinLinkTitle(_)
joinLinkTitle(tokens) ==
  IF tokens = <<>> THEN ""
  ELSE (IF tokens[1].hidden THEN tokens[1].content ELSE "") \o joinLinkTitle(Tail(tokens))

\* markdown-it's escapeHtml.
mdEscapeHtml(str) ==
  ReplaceAll(ReplaceAll(ReplaceAll(ReplaceAll(str,
    "&", "&amp;"), "<", "&lt;"), ">", "&gt;"), "\"", "&quot;")

RECURSIVE renderAttrs(_)
renderAttrs(attrs) ==
  IF attrs = <<>> THEN ""
  ELSE " " \o mdEscapeHtml(attrs[1][1]) \o "=\"" \o mdEscapeHtml(attrs[1][2]) \o "\""
           \o renderAttrs(Tail(attrs))

\* markdown-it's renderer.renderToken(tokens, i, options) for an inline token.
renderToken(tokens, i) ==
  LET token == tokens[i]
  IN  IF token.hidden THEN ""
      ELSE (IF token.nesting = -1 THEN "</" ELSE "<") \o token.tag
             \o renderAttrs(token.attrs) \o ">"

\* markdown-it's own rules for the token types of the model.
DefaultRuleTypes == {"text", "code_inline"}
defaultRule(tokens, i) ==
  IF tokens[i].type = "text" THEN mdEscapeHtml(tokens[i].content)
  ELSE "<code" \o renderAttrs(tokens[i].attrs) \o ">"
         \o mdEscapeHtml(tokens[i].content) \o "</code>"

\* assembleCardTpl({url, tokens, i}): card is the fragment or Undefined.
assembleCardTpl(fs, xc, pluginOptions, url, tokens, i, resp) ==
  Only({
    IF md.error # ""
    THEN [error |-> md.error, card |-> Undefined, tokens |-> tokens, md |-> md]
    ELSE IF md.value = Undefined
    THEN [error |-> "", card |-> Undefined, tokens |-> tokens, md |-> md]
    ELSE Only({
      Only({
        IF frag.threw
        THEN [error |-> "TypeError", card |-> Undefined, tokens |-> hiddenTokens, md |-> md]
        ELSE [error |-> "", card |-> Str(frag.html), tokens |-> hiddenTokens, md |-> md]
        : frag \in {\* a custom renderer is modelled by the string it returns
                    IF pluginOptions.render # Undefined
                    THEN [threw |-> FALSE, html |-> pluginOptions.render[1]]
                    ELSE generateCardDomFragment(md.value[1],
                           [href |-> url,
                            linkTitle |-> joinLinkTitle(hiddenTokens),
                            target |-> IF Truthy(pluginOptions.target)
                                       THEN pluginOptions.target[1] ELSE "_blank",
                            classPrefix |-> pluginOptions.classPrefix])}})
      : hiddenTokens \in {ignoreRestToken(tokens, i)}})
    : md \in {getUrlMetadata(fs, xc, url, resp)}})

\* md.renderer.rules.link_open(tokens, i, ...): html is what it returns.
link_open(fs, xc, pluginOptions, tokens, i, resp) ==
  LET token == tokens[i]
      isLinkOpenToken == token.tag = "a" /\ token.type = "link_open"
      parsedHref == parseCardLinkHref(HrefOf(token))
      NoCall == [error |-> "", value |-> Undefined, fs |-> fs, xc |-> xc, calls |-> <<>>]
  IN  IF isLinkOpenToken /\ parsedHref.isCardLink /\ Truthy(parsedHref.url)
      THEN Only({
             IF tpl.error # ""
             THEN [error |-> tpl.error, html |-> "", isCard |-> FALSE,
                   tokens |-> tpl.tokens, md |-> tpl.md]
             ELSE IF Truthy(tpl.card)
             THEN [error |-> "", html |-> tpl.card[1], isCard |-> TRUE,
                   tokens |-> tpl.tokens, md |-> tpl.md]
             ELSE [error |-> "", html |-> renderToken(tpl.tokens, i), isCard |-> FALSE,
                   tokens |-> tpl.tokens, md |-> tpl.md]
             : tpl \in {assembleCardTpl(fs, xc, pluginOptions, parsedHref.url[1],
                                        tokens, i, resp)}})
      ELSE [error |-> "", html |-> renderToken(tokens, i), isCard |-> FALSE,
            tokens |-> tokens, md |-> NoCall]

(***************************************************************************)
(* api                                                                     *)
(***************************************************************************)
\* generateCard(url, options): outcome is how the promise stands when the
\* executor has run: "resolved" with the response, "rejected" when the
\* executor threw, "pending" when it called neither resolve nor reject.  ac is
\* the Map of the module.
generateCard(xc, ac, url, options, resp) ==
  Only({
    IF ~Truthy(x.result)
    THEN [outcome |-> "pending", xc |-> x.xc, ac |-> ac]
    ELSE Only({
      IF m.kind = "throw"
      THEN [outcome |-> "rejected", xc |-> x.xc, ac |-> ac]
      ELSE IF m.kind = "null"
      THEN [outcome |-> "pending", xc |-> x.xc, ac |-> ac]
      ELSE Only({
        IF card.threw
        THEN [outcome |-> "rejected", xc |-> x.xc, ac |-> ac]
        ELSE [outcome |-> "resolved", xc |-> x.xc,
              ac |-> MapSet(ac, url, [url |-> url, data |-> m.value,
                                      options |-> [linkTitle |-> options.linkTitle,
                                                   target |-> IF Truthy(options.target)
                                                              THEN options.target
                                                              ELSE Str("_blank"),
                                                   classPrefix |-> options.classPrefix],
                                      dom |-> card.html])]
        : card \in {generateCardDomFragment(m.value,
                       [href |-> url,
                        linkTitle |-> options.linkTitle,
                        target |-> IF Truthy(options.target)
                                   THEN options.target[1] ELSE "_blank",
                        classPrefix |-> options.classPrefix])}})
      : m \in {parserMetadata(x.result[1], url)}})
    : x \in {sync(xc, url, resp)}})

(***************************************************************************)
(* Page texts: up to MaxTags elements, each written out as HTML.           *)
(***************************************************************************)
Open(tag, attrs) == [tag |-> tag, attrs |-> attrs, closed |-> FALSE, inner |-> ""]
Closed(tag, inner) == [tag |-> tag, attrs |-> <<>>, closed |-> TRUE, inner |-> inner]

OgTitle == Open("meta", <<<<"property", "og:title">>, <<"content", "OG">>>>)
OgTitleContentFirst == Open("meta", <<<<"content", "CF">>, <<"property", "og:title">>>>)
MetaTitleNoContent == Open("meta", <<<<"name", "title">>>>)
PlainTitle == Closed("title", "Plain")
MetaDescription == Open("meta", <<<<"name", "description">>, <<"content", "Desc">>>>)
DescriptionOfTitle ==
  Open("meta", <<<<"name", "description">>, <<"content", "About the title">>>>)
OgImageAbsolute ==
  Open("meta", <<<<"property", "og:image">>, <<"content", "https://cdn.example.com/a.png">>>>)
OgImageRelative == Open("meta", <<<<"property", "og:image">>, <<"content", "/img/a.png">>>>)
OgImageNoContent == Open("meta", <<<<"property", "og:image">>>>)
IconRelative == Open("link", <<<<"rel", "icon">>, <<"href", "/favicon.ico">>>>)
IconAbsolute == Open("link", <<<<"rel", "icon">>, <<"href", "https://example.com/i.ico">>>>)
Paragraph == Closed("p", "hi")

Elements == {OgTitle, OgTitleContentFirst, MetaTitleNoContent, PlainTitle,
             MetaDescription, DescriptionOfTitle, OgImageAbsolute, OgImageRelative, OgImageNoContent,
             IconRelative, IconAbsolute, Paragraph}

RECURSIVE AttrsHtml(_)
AttrsHtml(attrs) ==
  IF attrs = <<>> THEN ""
  ELSE " " \o attrs[1][1] \o "=\"" \o attrs[1][2] \o "\"" \o AttrsHtml(Tail(attrs))

ElementHtml(el) ==
  "<" \o el.tag \o AttrsHtml(el.attrs) \o ">"
      \o (IF el.closed THEN el.inner \o "</" \o el.tag \o ">" ELSE "")

RECURSIVE PageText(_)
PageText(els) == IF els = <<>> THEN "" ELSE ElementHtml(els[1]) \o PageText(Tail(els))

Pages == UNION {[1..n -> Elements] : n \in 0..MaxTags}

\* The last one is no absolute URL: new URL throws on it.
SourceUrls == {"https://example.com/blog/post", "https://www.example.org", "example.com/post"}

(***************************************************************************)
(* State.                                                                  *)
(***************************************************************************)
VARIABLES
  page,     \* the elements of the page text handed to parserMetadata
  srcUrl,   \* the URL handed to parserMetadata
  parsed,   \* what parserMetadata did: pending, record, null or throw
  cardData,     \* the metadata handed to generateCardDomFragment
  cardOptions,  \* the options handed to generateCardDomFragment
  dom,          \* what generateCardDomFragment did: pending, or its result
  tokens,        \* the inline tokens renderInline is rendering
  idx,           \* renderInline's loop index i (from 1)
  result,        \* renderInline's result so far
  raised,        \* "" or the error that ended renderInline
  pluginOptions, \* the options the plugin was installed with
  files,         \* the file system: the two cache file paths
  xhrCache,      \* the in-memory cache of assemble/xhr
  emitted,       \* history: for each token rendered, how and to what
  lastCall,      \* history: the last getUrlMetadata call of link_open
  cacheCall,     \* history: the last call on the persistent cache, how many were made,
                 \* whether it repeats the call before it, the files it found
  xhrCall,       \* history: the last call of the fetcher
  returned,      \* history: for each URL, the text a fetch first returned
  promises,      \* the promises generateCard returned, in the order of the calls
  resumed,       \* the promises whose awaiting caller has run on
  apiCache       \* the Map of api.ts: the last response generated for each URL

parserVars == <<page, srcUrl, parsed>>
renderVars == <<cardData, cardOptions, dom>>
pluginVars == <<tokens, idx, result, raised, pluginOptions, files, xhrCache,
                emitted, lastCall>>
apiVars == <<promises, resumed, apiCache>>
callVars == <<cacheCall, xhrCall, returned, apiVars>>
vars == <<parserVars, renderVars, pluginVars, callVars>>

Pending == [kind |-> "pending", value |-> NoMetadata]
NotRendered == [threw |-> FALSE, html |-> "pending"]

\* A component that is not exercised by a specification stays idle.
ParserIdle == page = <<>> /\ srcUrl = "" /\ parsed = Pending
RenderIdle == cardData = NoMetadata /\ cardOptions = <<>> /\ dom = NotRendered
NoFiles == [p \in Paths |-> NoFile]
NoResponse == [kind |-> "none", status |-> 0, responseText |-> ""]
NoLastCall == [index |-> 0, url |-> Undefined, resp |-> NoResponse, calls |-> <<>>,
               error |-> "", value |-> Undefined, isCard |-> FALSE]
\* renderInline is not running: no tokens, nothing rendered.
InlineIdle ==
  /\ tokens = <<>> /\ idx = 1 /\ result = "" /\ raised = ""
  /\ pluginOptions = [target |-> Undefined, classPrefix |-> Undefined, render |-> Undefined]
  /\ emitted = <<>> /\ lastCall = NoLastCall
NoCacheCall == [n |-> 0, op |-> "none", url |-> "", data |-> NoMetadata,
                threw |-> FALSE, value |-> Undefined, calls |-> <<>>, again |-> FALSE,
                found |-> {}, resp |-> NoResponse]
NoXhrCall == [n |-> 0, fn |-> "none", url |-> "", resp |-> NoResponse, outcome |-> "none",
              result |-> Undefined, requested |-> FALSE]
ApiIdle == promises = <<>> /\ resumed = {} /\ apiCache = <<>>
CallsIdle == cacheCall = NoCacheCall /\ xhrCall = NoXhrCall /\ returned = <<>> /\ ApiIdle
PluginIdle ==
  /\ InlineIdle
  /\ files = NoFiles /\ xhrCache = <<>>
  /\ CallsIdle

(***************************************************************************)
(* The card renderer as a function of its inputs.                          *)
(***************************************************************************)
GitHubTitle ==
  "GitHub - asumo-1xts/vitepress-linkcard: A VitePress plugin to generate a pretty linkcard."
GitHubDescription ==
  "A VitePress plugin to generate a pretty linkcard. Contribute to asumo-1xts/vitepress-linkcard development by creating an account on GitHub."

CardTitles == {Undefined, Str("Example Title"), Str("a<b"), Str("Tom & \"J\" > 'K'"),
               Str("x &lt; y"), Str(GitHubTitle)}
CardDescriptions == {Undefined, Str("Example Website"), Str("1 < 2 & 3"),
                     Str(GitHubDescription)}
CardLogos == {Str(DEFAULT_LOGO)}
CardHrefs == {"https://example.com", "https://www.example.org/a",
              "https://github.com/asumo-1xts/vitepress-linkcard"}
CardTargets == {"_blank", "_self"}
CardClassPrefixes == {Undefined, Str("my")}

RenderInit ==
  /\ cardData \in [title : CardTitles, description : CardDescriptions, logo : CardLogos]
  /\ cardOptions \in [href : CardHrefs, linkTitle : {"Link"}, target : CardTargets,
                       classPrefix : CardClassPrefixes]
  /\ dom = NotRendered
  /\ ParserIdle
  /\ PluginIdle

CallGenerateCardDomFragment ==
  /\ dom = NotRendered
  /\ dom' = generateCardDomFragment(cardData, cardOptions)
  /\ UNCHANGED <<cardData, cardOptions, parserVars, pluginVars, callVars>>

RenderNext == CallGenerateCardDomFragment

SpecRender == RenderInit /\ [][RenderNext]_vars

(***************************************************************************)
(* The extractor as a function of its inputs.                              *)
(***************************************************************************)
ParserInit ==
  /\ page \in Pages
  /\ srcUrl \in SourceUrls
  /\ parsed = Pending
  /\ RenderIdle
  /\ PluginIdle

CallParserMetadata ==
  /\ parsed = Pending
  /\ parsed' = parserMetadata(PageText(page), srcUrl)
  /\ UNCHANGED <<page, srcUrl, renderVars, pluginVars, callVars>>

ParserNext == CallParserMetadata

SpecParser == ParserInit /\ [][ParserNext]_vars

(***************************************************************************)
(* The markdown integration: renderInline over one inline token sequence,  *)
(* one step per token.                                                     *)
(***************************************************************************)
Token(type, tag, attrs, content, nesting) ==
  [type |-> type, tag |-> tag, attrs |-> attrs, content |-> content,
   nesting |-> nesting, hidden |-> FALSE]
Text(content) == Token("text", "", <<>>, content, 0)
Code(content) == Token("code_inline", "code", <<>>, content, 0)
LinkOpen(href) == Token("link_open", "a", <<<<"href", href>>>>, "", 1)
LinkClose == Token("link_close", "a", <<>>, "", -1)

CardUrl1 == "https://example.com"
CardUrl2 == "https://www.example.org/a"

PlainText == <<Text("A")>>
OrdinaryLink == <<LinkOpen("https://o.example"), Text("B"), LinkClose>>
CardLink1 == <<LinkOpen("@:" \o CardUrl1), Text("C"), LinkClose>>
CardLink2 == <<LinkOpen("@:" \o CardUrl2), Text("D"), Code("E"), LinkClose>>
Segments == {PlainText, OrdinaryLink, CardLink1, CardLink2}

RECURSIVE Flatten(_)
Flatten(segs) == IF segs = <<>> THEN <<>> ELSE segs[1] \o Flatten(Tail(segs))
InlineSequences == {Flatten(segs) : segs \in UNION {[1..n -> Segments] : n \in 1..MaxSegs}}

\* What the network may answer to a request.
Response(status, text) == [kind |-> "response", status |-> status, responseText |-> text]
Responses ==
  {Response(200, PageText(<<PlainTitle>>)),
   Response(200, PageText(<<OgTitle, MetaDescription>>)),
   Response(200, PageText(<<IconRelative>>)),
   Response(200, PageText(<<Paragraph>>)),
   Response(200, ""),
   Response(404, "Not Found"),
   [kind |-> "exception", status |-> 0, responseText |-> ""]}

\* The cache file as a run may find it.
CachedEntry == [title |-> Str("Cached Title"), logo |-> Str(DEFAULT_LOGO)]
CachedData == [u \in {"https://example.com/", CardUrl1} |->
                 IF u = CardUrl1 THEN CachedEntry ELSE initialData["https://example.com/"]]
InitialFileSystems ==
  {NoFiles,
   [NoFiles EXCEPT !["default"] = <<JSONstringify(initialData, 2)>>],
   [NoFiles EXCEPT !["default"] = <<JsonText("indent2nl", JsonObject(CachedData))>>],
   [NoFiles EXCEPT !["fallback"] = <<JsonText("indent2nl", JsonObject(CachedData))>>],
   [NoFiles EXCEPT !["default"] = <<GarbageText>>]}

PluginOptionSets ==
  {[target |-> Undefined, classPrefix |-> Undefined, render |-> Undefined],
   [target |-> Str("_self"), classPrefix |-> Str("my"), render |-> Undefined],
   [target |-> Undefined, classPrefix |-> Undefined, render |-> Str("<b>custom</b>")]}

Init ==
  /\ tokens \in InlineSequences
  /\ idx = 1
  /\ result = ""
  /\ raised = ""
  /\ pluginOptions \in PluginOptionSets
  /\ files \in InitialFileSystems
  /\ xhrCache = <<>>
  /\ emitted = <<>>
  /\ lastCall = NoLastCall
  /\ ParserIdle
  /\ RenderIdle
  /\ CallsIdle

Rendering == raised = "" /\ idx <= Len(tokens)
Emit(how, html) == emitted' = Append(emitted, [index |-> idx, how |-> how, html |-> html])

\* if (currentToken.hidden) result += ''
RenderHidden ==
  /\ Rendering
  /\ tokens[idx].hidden
  /\ result' = result \o ""
  /\ idx' = idx + 1
  /\ Emit("hidden", "")
  /\ UNCHANGED <<tokens, raised, pluginOptions, files, xhrCache, lastCall,
                 parserVars, renderVars, callVars>>

\* else if (isFunction(ruleFunction)): the plugin's rule for link_open
RenderLinkOpen ==
  /\ Rendering
  /\ ~tokens[idx].hidden
  /\ tokens[idx].type = "link_open"
  /\ \E resp \in Responses :
     \E r \in {link_open(files, xhrCache, pluginOptions, tokens, idx, resp)} :
           /\ tokens' = r.tokens
           /\ files' = r.md.fs
           /\ xhrCache' = r.md.xc
           /\ lastCall' = [index |-> idx,
                           url |-> parseCardLinkHref(HrefOf(tokens[idx])).url,
                           resp |-> IF "xhr.sync" \in {r.md.calls[k] : k \in DOMAIN r.md.calls}
                                    THEN resp ELSE NoResponse,
                           calls |-> r.md.calls,
                           error |-> r.error,
                           value |-> r.md.value,
                           isCard |-> r.isCard]
           /\ IF r.error # ""
              THEN /\ raised' = r.error
                   /\ UNCHANGED <<idx, result, emitted>>
              ELSE /\ result' = result \o r.html
                   /\ idx' = idx + 1
                   /\ Emit(IF r.isCard THEN "card" ELSE "renderToken", r.html)
                   /\ UNCHANGED raised
  /\ UNCHANGED <<pluginOptions, parserVars, renderVars, callVars>>

\* else if (isFunction(ruleFunction)): a rule of markdown-it itself
RenderDefaultRule ==
  /\ Rendering
  /\ ~tokens[idx].hidden
  /\ tokens[idx].type \in DefaultRuleTypes
  /\ result' = result \o defaultRule(tokens, idx)
  /\ idx' = idx + 1
  /\ Emit("rule", defaultRule(tokens, idx))
  /\ UNCHANGED <<tokens, raised, pluginOptions, files, xhrCache, lastCall,
                 parserVars, renderVars, callVars>>

\* else result += md.renderer.renderToken(tokens, i, rootOptions)
RenderPlainToken ==
  /\ Rendering
  /\ ~tokens[idx].hidden
  /\ tokens[idx].type \notin DefaultRuleTypes \cup {"link_open"}
  /\ result' = result \o renderToken(tokens, idx)
  /\ idx' = idx + 1
  /\ Emit("renderToken", renderToken(tokens, idx))
  /\ UNCHANGED <<tokens, raised, pluginOptions, files, xhrCache, lastCall,
                 parserVars, renderVars, callVars>>

Next == RenderHidden \/ RenderLinkOpen \/ RenderDefaultRule \/ RenderPlainToken

Spec == Init /\ [][Next]_vars

(***************************************************************************)
(* renderInline over one link, for every way its href may be written.      *)
(***************************************************************************)
LinkHrefs == {"@:" \o CardUrl1, "@:" \o CardUrl2, "@:example.com/page", "@:/docs/a",
              "@:", "@https://example.com", "x@:https://example.com",
              "https://o.example"}
LinkSequences == {<<LinkOpen(h), Text("T"), LinkClose>> : h \in LinkHrefs}

LinkInit ==
  /\ tokens \in LinkSequences
  /\ idx = 1
  /\ result = ""
  /\ raised = ""
  /\ pluginOptions \in PluginOptionSets
  /\ files \in InitialFileSystems
  /\ xhrCache = <<>>
  /\ emitted = <<>>
  /\ lastCall = NoLastCall
  /\ ParserIdle
  /\ RenderIdle
  /\ CallsIdle

SpecLink == LinkInit /\ [][Next]_vars

(***************************************************************************)
(* The persistent cache under a sequence of has, get, set and              *)
(* getUrlMetadata calls, from every cache file a run may find.             *)
(***************************************************************************)
\* Calls per run.
MaxCalls == 3

CacheUrls == {CardUrl1, CardUrl2}
\* Records handed to set: every field a string, a field undefined, a field absent.
CacheRecords ==
  {[title |-> Str("T"), description |-> Str("D"), logo |-> Str(DEFAULT_LOGO)],
   [title |-> Str("U"), description |-> Undefined, logo |-> Str(DEFAULT_LOGO)],
   [title |-> Str("V")]}
OtherEntry == [title |-> Str("Other Title"), logo |-> Str(DEFAULT_LOGO)]
BlankText == [kind |-> "blank", layout |-> "raw", value |-> JsonArray]
CacheFileSystems ==
  InitialFileSystems
    \cup {\* both files, with different entries
          [default |-> <<JsonText("indent2nl", JsonObject(CachedData))>>,
           fallback |-> <<JsonText("indent2nl",
                            JsonObject([u \in {CardUrl2} |-> OtherEntry]))>>],
          \* an empty file, a file holding [], a file of one line
          [NoFiles EXCEPT !["default"] = <<BlankText>>],
          [NoFiles EXCEPT !["default"] = <<JsonText("compact", JsonArray)>>],
          [NoFiles EXCEPT !["fallback"] = <<GarbageText>>],
          [NoFiles EXCEPT !["default"] = <<JsonText("compact", JsonObject(CachedData))>>]}
CacheResponses ==
  {Response(200, PageText(<<OgTitle, MetaDescription>>)),
   Response(200, PageText(<<IconRelative>>)),
   Response(200, PageText(<<Paragraph>>)),
   Response(200, ""),
   Response(404, "Not Found"),
   [kind |-> "exception", status |-> 0, responseText |-> ""]}

CacheInit ==
  /\ files \in CacheFileSystems
  /\ xhrCache = <<>>
  /\ CallsIdle
  /\ InlineIdle
  /\ ParserIdle
  /\ RenderIdle

CacheCalling == cacheCall.n < MaxCalls
CacheFrame == UNCHANGED <<tokens, idx, result, raised, pluginOptions, emitted, lastCall,
                          xhrCall, returned, apiVars, parserVars, renderVars>>

\* cache.has(url)
CallHas ==
  /\ CacheCalling
  /\ \E u \in CacheUrls : \E r \in {cacheHas(files, u)} :
       /\ files' = r.fs
       /\ cacheCall' = [n |-> cacheCall.n + 1, op |-> "has", url |-> u, data |-> NoMetadata,
                        threw |-> r.threw, value |-> r.value, calls |-> <<>>,
                        again |-> cacheCall.op = "has" /\ cacheCall.url = u
                                    /\ cacheCall.data = NoMetadata,
                        found |-> {p \in Paths : files[p] # NoFile},
                        resp |-> NoResponse]
  /\ UNCHANGED xhrCache
  /\ CacheFrame

\* cache.get(url)
CallGet ==
  /\ CacheCalling
  /\ \E u \in CacheUrls : \E r \in {cacheGet(files, u)} :
       /\ files' = r.fs
       /\ cacheCall' = [n |-> cacheCall.n + 1, op |-> "get", url |-> u, data |-> NoMetadata,
                        threw |-> r.threw, value |-> r.value, calls |-> <<>>,
                        again |-> cacheCall.op = "get" /\ cacheCall.url = u
                                    /\ cacheCall.data = NoMetadata,
                        found |-> {p \in Paths : files[p] # NoFile},
                        resp |-> NoResponse]
  /\ UNCHANGED xhrCache
  /\ CacheFrame

\* cache.set(url, data)
CallSet ==
  /\ CacheCalling
  /\ \E u \in CacheUrls : \E m \in CacheRecords : \E r \in {cacheSet(files, u, m)} :
       /\ files' = r.fs
       /\ cacheCall' = [n |-> cacheCall.n + 1, op |-> "set", url |-> u, data |-> m,
                        threw |-> r.threw, value |-> Undefined, calls |-> <<>>,
                        again |-> cacheCall.op = "set" /\ cacheCall.url = u
                                    /\ cacheCall.data = m,
                        found |-> {p \in Paths : files[p] # NoFile},
                        resp |-> NoResponse]
  /\ UNCHANGED xhrCache
  /\ CacheFrame

\* getUrlMetadata(url)
CallGetUrlMetadata ==
  /\ CacheCalling
  /\ \E u \in CacheUrls : \E resp \in CacheResponses :
     \E r \in {getUrlMetadata(files, xhrCache, u, resp)} :
       /\ files' = r.fs
       /\ xhrCache' = r.xc
       /\ cacheCall' = [n |-> cacheCall.n + 1, op |-> "getUrlMetadata", url |-> u,
                        data |-> NoMetadata, threw |-> r.error # "",
                        value |-> r.value, calls |-> r.calls,
                        again |-> cacheCall.op = "getUrlMetadata" /\ cacheCall.url = u
                                    /\ cacheCall.data = NoMetadata,
                        found |-> {p \in Paths : files[p] # NoFile},
                        \* the answer to the request, when one was sent
                        resp |-> IF r.calls # <<>> /\ r.calls[Len(r.calls)] # "cache.get"
                                      /\ Len(r.calls) > 1 /\ u \notin DOMAIN xhrCache
                                 THEN resp ELSE NoResponse]
  /\ CacheFrame

CacheNext == CallHas \/ CallGet \/ CallSet \/ CallGetUrlMetadata

SpecCache == CacheInit /\ [][CacheNext]_vars

(***************************************************************************)
(* The fetcher under a sequence of sync and async calls in one process.    *)
(***************************************************************************)
\* Fetches per run.
MaxFetches == 3

FetchUrls == {CardUrl1, CardUrl2}

XhrInit ==
  /\ xhrCache = <<>>
  /\ xhrCall = NoXhrCall
  /\ returned = <<>>
  /\ cacheCall = NoCacheCall
  /\ ApiIdle
  /\ files = NoFiles
  /\ InlineIdle
  /\ ParserIdle
  /\ RenderIdle

Fetching == xhrCall.n < MaxFetches
XhrFrame == UNCHANGED <<tokens, idx, result, raised, pluginOptions, emitted, lastCall,
                        files, cacheCall, apiVars, parserVars, renderVars>>
\* The first text a fetch of the URL returned is kept.
Returns(u, res) ==
  returned' = IF res # Undefined /\ u \notin DOMAIN returned
              THEN MapSet(returned, u, res[1]) ELSE returned

\* xhr.sync(url)
CallSync ==
  /\ Fetching
  /\ \E u \in FetchUrls : \E resp \in Responses : \E r \in {sync(xhrCache, u, resp)} :
       /\ xhrCache' = r.xc
       /\ xhrCall' = [n |-> xhrCall.n + 1, fn |-> "sync", url |-> u, resp |-> resp,
                      outcome |-> "returned", result |-> r.result,
                      requested |-> r.requested]
       /\ Returns(u, r.result)
  /\ XhrFrame

\* xhr.async(url)
CallAsync ==
  /\ Fetching
  /\ \E u \in FetchUrls : \E resp \in Responses : \E r \in {async(xhrCache, u, resp)} :
       /\ xhrCache' = r.xc
       /\ xhrCall' = [n |-> xhrCall.n + 1, fn |-> "async", url |-> u, resp |-> resp,
                      outcome |-> r.outcome, result |-> r.result,
                      requested |-> r.requested]
       /\ Returns(u, r.result)
  /\ XhrFrame

XhrNext == CallSync \/ CallAsync

SpecXhr == XhrInit /\ [][XhrNext]_vars

(***************************************************************************)
(* generateCard called by callers that await its promise.  The executor of *)
(* a promise runs inside the call; the caller of a settled promise runs on *)
(* when the job queue reaches its reaction, which the event loop does for  *)
(* every settled promise.                                                  *)
(***************************************************************************)
\* Calls of generateCard per run.
MaxGenerations == 2

GenerateUrls == {CardUrl1, CardUrl2}
GenerateOptions == [linkTitle : {"Link"}, target : {Undefined, Str("_self")},
                    classPrefix : {Undefined}]

ApiInit ==
  /\ xhrCache = <<>>
  /\ files = NoFiles
  /\ CallsIdle
  /\ InlineIdle
  /\ ParserIdle
  /\ RenderIdle

ApiFrame == UNCHANGED <<tokens, idx, result, raised, pluginOptions, emitted, lastCall,
                        files, cacheCall, xhrCall, returned, parserVars, renderVars>>

\* generateCard(url, options)
CallGenerateCard ==
  /\ Len(promises) < MaxGenerations
  /\ \E u \in GenerateUrls : \E o \in GenerateOptions : \E resp \in Responses :
     \E r \in {generateCard(xhrCache, apiCache, u, o, resp)} :
       /\ xhrCache' = r.xc
       /\ apiCache' = r.ac
       /\ promises' = Append(promises, [url |-> u, outcome |-> r.outcome, resp |-> resp])
  /\ UNCHANGED resumed
  /\ ApiFrame

\* The caller awaiting a settled promise runs on.
ResumeCaller ==
  /\ \E i \in DOMAIN promises \ resumed :
       /\ promises[i].outcome \in {"resolved", "rejected"}
       /\ resumed' = resumed \cup {i}
  /\ UNCHANGED <<promises, apiCache, xhrCache>>
  /\ ApiFrame

ApiNext == CallGenerateCard \/ ResumeCaller

SpecApi == ApiInit /\ [][ApiNext]_vars
SpecApiFair == SpecApi /\ WF_vars(ResumeCaller)

(***************************************************************************)
(* What a page was written with, read off its elements (not its text).     *)
(***************************************************************************)
HasAttr(el, name) == \E i \in 1..Len(el.attrs) : el.attrs[i][1] = name
AttrOf(el, name) == el.attrs[CHOOSE i \in 1..Len(el.attrs) : el.attrs[i][1] = name][2]
EndsWith(str, suffix) ==
  Len(str) >= Len(suffix) /\ StartsAt(str, Len(str) - Len(suffix) + 1, suffix)
Contains(str, part) == FirstIndex(str, part, 1) > 0
\* A meta tag with an attribute value ending in `title' and a content attribute.
IsMetaTitleTag(el) ==
  /\ el.tag = "meta"
  /\ HasAttr(el, "content")
  /\ \E i \in 1..Len(el.attrs) : el.attrs[i][1] # "content" /\ EndsWith(el.attrs[i][2], "title")
IsLogoTag(el) == el \in {OgImageAbsolute, OgImageRelative, OgImageNoContent,
                         IconRelative, IconAbsolute}
Returned == parsed.kind \in {"record", "null"}
\* The origin of each source URL, written out.
SourceOrigin(u) ==
  IF u = "https://example.com/blog/post" THEN "https://example.com" ELSE "https://www.example.org"

(***************************************************************************)
(* C1.  For every page text that holds both a meta title tag with a        *)
(* content attribute and a plain <title> element, parserMetadata returns a *)
(* record whose title is the content value of a meta title tag of the page *)
(* and is not the inner text of the <title> element.                       *)
(***************************************************************************)
C1_MetaTitleContentWins ==
  ( /\ Returned
    /\ \E i \in 1..Len(page) : IsMetaTitleTag(page[i])
    /\ \E j \in 1..Len(page) : page[j].tag = "title" )
  => /\ parsed.kind = "record"
     /\ \E i \in 1..Len(page) :
          IsMetaTitleTag(page[i]) /\ parsed.value.title = Str(AttrOf(page[i], "content"))
     /\ \A j \in 1..Len(page) :
          page[j].tag = "title" => parsed.value.title # Str(page[j].inner)

(***************************************************************************)
(* C2.  For every page text with no title tag, no description tag, no      *)
(* image tag and no icon link tag, parserMetadata returns null.            *)
(***************************************************************************)
C2_NoTagsYieldNull ==
  ( /\ parsed # Pending
    /\ \A i \in 1..Len(page) : page[i].tag \notin {"meta", "link", "title"} )
  => parsed.kind = "null"

(***************************************************************************)
(* C3.  When the logo candidate of the page is a path and no absolute URL, *)
(* parserMetadata returns a record whose logo is the origin of the source  *)
(* URL followed by the path (for https://example.com/blog/post and         *)
(* /img/a.png: https://example.com/img/a.png).                             *)
(***************************************************************************)
C3_RelativeLogoResolved ==
  ( /\ parsed # Pending
    /\ \E i \in 1..Len(page) : page[i] \in {OgImageRelative, IconRelative}
    /\ \A i \in 1..Len(page) : IsLogoTag(page[i]) => page[i] \in {OgImageRelative, IconRelative} )
  => /\ parsed.kind = "record"
     /\ parsed.value.logo =
          Str(SourceOrigin(srcUrl)
                \o (IF \E i \in 1..Len(page) : page[i] = OgImageRelative
                    THEN "/img/a.png" ELSE "/favicon.ico"))

(***************************************************************************)
(* C4.  parserMetadata raises no error, whatever the page text and the     *)
(* source URL: it returns a record or null.                                *)
(***************************************************************************)
C4_ParserNeverThrows == parsed.kind # "throw"

(***************************************************************************)
(* C5.  The fragment of the default renderer holds the title and the       *)
(* description with <, >, &, " and ' replaced by their entities, and holds *)
(* neither of them raw when it has such a character.                       *)
(***************************************************************************)
\* The entity encoding the claim speaks of.
EntityEncode(str) ==
  ReplaceAll(ReplaceAll(ReplaceAll(ReplaceAll(ReplaceAll(str,
    "&", "&amp;"), "<", "&lt;"), ">", "&gt;"), "\"", "&quot;"), "'", "&#039;")
HasSpecial(str) == \E c \in {"<", ">", "&", "\"", "'"} : Contains(str, c)
\* The text of the element opened by <span style>: the line between the
\* opening tag and its </span>.
ElementText(html, style) ==
  LET open == "<span " \o style \o ">\n          "
      from == FirstIndex(html, open, 1) + Len(open)
      to == FirstIndex(html, "\n        </span>", from)
  IN  SubSeq(html, from, to - 1)
C5_TitleAndDescriptionEscaped ==
  (dom # NotRendered /\ ~dom.threw /\ ~Contains(cardOptions.href, "github.com"))
  => /\ cardData.title # Undefined
          => ElementText(dom.html, STYLE.title) = EntityEncode(cardData.title[1])
     /\ cardData.description # Undefined
          => ElementText(dom.html, STYLE.description) = EntityEncode(cardData.description[1])

(***************************************************************************)
(* What an inline sequence was written with, read off its tokens.          *)
(***************************************************************************)
\* The link_close that ends the link opened at i (links do not nest).
LinkEnd(toks, i) == MinOf({j \in (i + 1)..Len(toks) : toks[j].type = "link_close"})
\* The tokens of the link opened at i, its link_open aside.
OwnTokens(toks, i) == (i + 1)..LinkEnd(toks, i)
\* The href the link_open token was written with.
WrittenHref(tok) == tok.attrs[1][2]
CardLinkAt(toks, i) ==
  toks[i].type = "link_open" /\ StartsAt(WrittenHref(toks[i]), 1, "@:")
\* The URL after the marker.
WrittenUrl(tok) == SubSeq(WrittenHref(tok), 3, Len(WrittenHref(tok)))
RECURSIVE JoinContent(_, _, _)
JoinContent(toks, from, to) ==
  IF from > to THEN "" ELSE toks[from].content \o JoinContent(toks, from + 1, to)
RECURSIVE JoinEmitted(_)
JoinEmitted(es) == IF es = <<>> THEN "" ELSE es[1].html \o JoinEmitted(Tail(es))
\* The emissions that were cards.
CardEmissions == {k \in 1..Len(emitted) : emitted[k].how = "card"}

(***************************************************************************)
(* C6.  When a card link renders as a card, every token of that link after *)
(* its link_open (its text tokens and its link_close) is hidden and adds   *)
(* nothing to the renderInline output, and the card fragment is in the     *)
(* output exactly once, at the place of the link_open token.               *)
(***************************************************************************)
C6_CardReplacesLink ==
  \A k \in CardEmissions :
    LET i == emitted[k].index
    IN  /\ CardLinkAt(tokens, i)
        /\ \A j \in OwnTokens(tokens, i) : tokens[j].hidden
        /\ \A m \in 1..Len(emitted) :
             emitted[m].index \in OwnTokens(tokens, i)
               => emitted[m].how = "hidden" /\ emitted[m].html = ""
        /\ {m \in 1..Len(emitted) : emitted[m].index = i} = {k}
        /\ {m \in 1..Len(emitted) : emitted[m].html = emitted[k].html} = {k}
        /\ result = JoinEmitted(emitted)

\* A card link with two text tokens was rendered as a card, to its end.
C6_Witness ==
  \E k \in CardEmissions :
    /\ idx > Len(tokens)
    /\ Cardinality(OwnTokens(tokens, emitted[k].index)) = 3
    /\ \A j \in OwnTokens(tokens, emitted[k].index) :
         \E m \in 1..Len(emitted) : emitted[m].index = j /\ emitted[m].how = "hidden"

(***************************************************************************)
(* C7.  When a card link renders as a card, every token that is no token   *)
(* of that link keeps hidden = FALSE and is rendered by the rule it is     *)
(* rendered by without the plugin, never skipped as hidden.                *)
(***************************************************************************)
C7_OtherTokensUntouched ==
  \A k \in CardEmissions :
    LET i == emitted[k].index
    IN  \A j \in 1..Len(tokens) :
          j \notin {i} \cup OwnTokens(tokens, i)
            => /\ ~tokens[j].hidden
               /\ \A m \in 1..Len(emitted) :
                    emitted[m].index = j => emitted[m].how # "hidden"

(***************************************************************************)
(* C8.  The title attribute of a card of the default renderer is the       *)
(* joined content of the text tokens of the card link itself, with no      *)
(* content of a token outside the link.                                    *)
(***************************************************************************)
\* The head of the default fragment, up to its title attribute.
CardHead(target, href, title) ==
  "<span style=\"display:block;\">\n  <a rel=\"noopener noreferrer\" target=\""
    \o target \o "\" href=\"" \o href \o "\" title=\"" \o title \o "\" "
C8_TitleIsOwnText ==
  \A k \in CardEmissions :
    LET i == emitted[k].index
    IN  pluginOptions.render = Undefined
          => StartsAt(emitted[k].html, 1,
                      CardHead(IF pluginOptions.target = Undefined THEN "_blank"
                               ELSE pluginOptions.target[1],
                               WrittenUrl(tokens[i]),
                               JoinContent(tokens, i + 1, LinkEnd(tokens, i) - 1)))

(***************************************************************************)
(* C9.  When link_open is called for a card link and the fetch for its URL *)
(* raises, answers a status other than 200 or answers no text, or the      *)
(* extraction yields no record, link_open raises no error, renders no      *)
(* card, leaves every token as it was with hidden = FALSE, and returns the *)
(* opening tag renderToken returns for the link_open token.                *)
(***************************************************************************)
FetchFailed(resp) ==
  resp.kind = "exception" \/ resp.status # 200 \/ resp.responseText = ""
NoRecord(call) ==
  /\ call.calls = <<"cache.has", "xhr.sync", "parserMetadata">>
  /\ call.error = ""
C9_FailedFetchPassesThrough ==
  [][ ( /\ lastCall'.index = idx
        /\ CardLinkAt(tokens, idx)
        /\ lastCall'.resp # NoResponse
        /\ (FetchFailed(lastCall'.resp) \/ NoRecord(lastCall')) )
      => /\ raised' = ""
         /\ lastCall'.error = ""
         /\ ~lastCall'.isCard
         /\ tokens' = tokens
         /\ \A j \in 1..Len(tokens') : ~tokens'[j].hidden
         /\ result' = result \o "<a href=\"" \o WrittenHref(tokens[idx]) \o "\">"
         /\ idx' = idx + 1 ]_vars

\* A card link whose fetch answered 404 was rendered to its end as a link.
C9_Witness ==
  /\ lastCall.resp.kind = "response"
  /\ lastCall.resp.status = 404
  /\ CardLinkAt(tokens, lastCall.index)
  /\ idx > Len(tokens)
  /\ raised = ""
  /\ \E m \in 1..Len(emitted) :
       emitted[m].index = lastCall.index /\ emitted[m].how = "renderToken"

(***************************************************************************)
(* C10.  getUrlMetadata asks the persistent cache first.  When the cache   *)
(* file holds an entry for the URL it returns that entry after cache.has   *)
(* and cache.get alone, with the file system and the fetcher's cache left  *)
(* as they were.  Otherwise what it calls is cache.has, xhr.sync,          *)
(* parserMetadata, cache.set in that order, stopping where a step yields   *)
(* nothing, and a record it returns has been stored under the URL.         *)
(***************************************************************************)
\* The entries of the cache file, read off the file system.
CacheEntries(fs) ==
  LET p == IF fs["default"] # NoFile THEN "default" ELSE "fallback"
  IN  IF fs[p] # NoFile /\ fs[p][1].kind = "json" /\ fs[p][1].value.type = "object"
      THEN fs[p][1].value.entries ELSE <<>>
MissOrder == <<"cache.has", "xhr.sync", "parserMetadata", "cache.set">>
IsPrefix(s, t) == Len(s) <= Len(t) /\ s = SubSeq(t, 1, Len(s))
C10_CacheFirst ==
  [][ (lastCall'.index = idx /\ CardLinkAt(tokens, idx))
      => LET url == WrittenUrl(tokens[idx])
         IN  IF url \in DOMAIN CacheEntries(files)
             THEN /\ lastCall'.calls = <<"cache.has", "cache.get">>
                  /\ lastCall'.value = <<CacheEntries(files)[url]>>
                  /\ files' = files
                  /\ xhrCache' = xhrCache
             ELSE /\ lastCall'.calls # <<>>
                  /\ IsPrefix(lastCall'.calls, MissOrder)
                  /\ lastCall'.value # Undefined
                       => /\ lastCall'.calls = MissOrder
                          /\ url \in DOMAIN CacheEntries(files') ]_vars

\* A miss ran through fetch, extraction and store, and the card was rendered.
C10_Witness ==
  /\ lastCall.calls = MissOrder
  /\ lastCall.isCard
  /\ lastCall.url[1] \in DOMAIN CacheEntries(files)

(***************************************************************************)
(* C11.  Over any sequence of has, get, set and getUrlMetadata calls,      *)
(* every URL with an entry in the cache file keeps an entry, and an entry  *)
(* changes only by a set for its own URL: getUrlMetadata changes no entry  *)
(* that is already stored.                                                 *)
(***************************************************************************)
C11_EntriesPersist ==
  [][ \A u \in DOMAIN CacheEntries(files) :
        /\ u \in DOMAIN CacheEntries(files')
        /\ CacheEntries(files')[u] # CacheEntries(files)[u]
             => cacheCall'.op = "set" /\ cacheCall'.url = u ]_vars

\* A stored URL was asked for through getUrlMetadata with three entries stored.
C11_Witness ==
  /\ cacheCall.op = "getUrlMetadata"
  /\ cacheCall.calls = <<"cache.has", "cache.get">>
  /\ Cardinality(DOMAIN CacheEntries(files)) = 3

(***************************************************************************)
(* C12.  After set(u, m), get(u) returns m without the properties of m     *)
(* whose value is undefined, and has(u) is true; what get returns equals m *)
(* when m has no such property.                                            *)
(***************************************************************************)
HasUndefinedProperty(m) == \E k \in DOMAIN m : m[k] = Undefined
SetDone == cacheCall.op = "set" /\ ~cacheCall.threw
C12_RoundTripUpToUndefined ==
  SetDone
    => /\ cacheGet(files, cacheCall.url).value = <<DropUndefined(cacheCall.data)>>
       /\ cacheHas(files, cacheCall.url).value
       /\ ~HasUndefinedProperty(cacheCall.data)
            => cacheGet(files, cacheCall.url).value = <<cacheCall.data>>

\* C12 as stated: after set(u, m), get(u) returns a record equal to m, for
\* every record m, and has(u) is true.
C12_RoundTrip ==
  SetDone
    => /\ cacheGet(files, cacheCall.url).value = <<cacheCall.data>>
       /\ cacheHas(files, cacheCall.url).value

\* A record with an undefined property was set.
C12_Witness == SetDone /\ HasUndefinedProperty(cacheCall.data)

(***************************************************************************)
(* C13.  A set(u, m) that follows a set(u, m) with the same URL and record *)
(* leaves the parsed content of the cache file as the first call left it.  *)
(***************************************************************************)
\* What each path holds, parsed.
ParsedFiles(fs) ==
  [p \in Paths |-> IF fs[p] = NoFile THEN NoFile ELSE <<fs[p][1].kind, fs[p][1].value>>]
C13_SetIdempotent ==
  [][ ( /\ cacheCall.op = "set"
        /\ cacheCall'.op = "set"
        /\ cacheCall'.n = cacheCall.n + 1
        /\ cacheCall'.url = cacheCall.url
        /\ cacheCall'.data = cacheCall.data )
      => cacheCall'.again /\ ParsedFiles(files') = ParsedFiles(files) ]_vars

\* The same set was made twice in a row on a file that held other entries.
C13_Witness ==
  /\ SetDone
  /\ cacheCall.again
  /\ Cardinality(DOMAIN CacheEntries(files)) = 3
  /\ CacheEntries(files)[cacheCall.url] = DropUndefined(cacheCall.data)

(***************************************************************************)
(* C14.  set(u2, m2) leaves the stored value of every other URL as it was, *)
(* whatever the cache file held.                                           *)
(***************************************************************************)
C14_SetKeepsOthers ==
  [][ (cacheCall'.op = "set" /\ cacheCall'.n = cacheCall.n + 1)
      => \A u1 \in DOMAIN CacheEntries(files) :
           u1 # cacheCall'.url
             => /\ u1 \in DOMAIN CacheEntries(files')
                /\ CacheEntries(files')[u1] = CacheEntries(files)[u1] ]_vars

\* A set was made for one URL while another URL had an entry.
C14_Witness ==
  /\ SetDone
  /\ \E u1 \in DOMAIN CacheEntries(files) :
       u1 # cacheCall.url /\ u1 \in CacheUrls

(***************************************************************************)
(* C15.  A has, get or set that finds neither cache file creates the file  *)
(* at the default path, and none at the fallback path, holding the one     *)
(* example entry keyed https://example.com/ (after a set: that entry and   *)
(* the entry set).  A call that finds a file creates none, and works on    *)
(* the file at the default path when there is one: the other file is left  *)
(* as it was and get returns what the file at the default path holds.      *)
(***************************************************************************)
ExampleEntry ==
  [description |-> Str("Example Website"),
   logo |-> Str("https://example.com/example.png"),
   title |-> Str("Example Title")]
\* The entries of the file at path p, <<>> when it holds no object.
EntriesAt(fs, p) ==
  IF fs[p] # NoFile /\ fs[p][1].kind = "json" /\ fs[p][1].value.type = "object"
  THEN fs[p][1].value.entries ELSE <<>>
C15_CreatedOnlyWhenAbsent ==
  [][ (cacheCall'.n = cacheCall.n + 1 /\ cacheCall'.op \in {"has", "get", "set"})
      => IF files["default"] = NoFile /\ files["fallback"] = NoFile
         THEN /\ files'["fallback"] = NoFile
              /\ files'["default"] # NoFile
              /\ ~cacheCall'.threw
              /\ DOMAIN EntriesAt(files', "default")
                   = {"https://example.com/"}
                       \cup (IF cacheCall'.op = "set" THEN {cacheCall'.url} ELSE {})
              /\ EntriesAt(files', "default")["https://example.com/"] = ExampleEntry
         ELSE LET used == IF files["default"] # NoFile THEN "default" ELSE "fallback"
              IN  /\ \A p \in Paths : (files'[p] = NoFile) <=> (files[p] = NoFile)
                  /\ \A p \in Paths \ {used} : files'[p] = files[p]
                  /\ (cacheCall'.op = "get" /\ ~cacheCall'.threw)
                       => cacheCall'.value
                            = (IF cacheCall'.url \in DOMAIN EntriesAt(files, used)
                               THEN <<EntriesAt(files, used)[cacheCall'.url]>>
                               ELSE Undefined) ]_vars

\* A has found no file and left the default file with the example entry.
C15_Witness ==
  /\ cacheCall.op = "has"
  /\ cacheCall.n = 1
  /\ cacheCall.found = {}
  /\ files["default"] # NoFile
  /\ DOMAIN EntriesAt(files, "default") = {"https://example.com/"}

(***************************************************************************)
(* C16.  Whenever the program has written the cache file, on creating it   *)
(* and after every set, the text of the file is its JSON object printed    *)
(* with 2-space indentation and a trailing newline.                        *)
(***************************************************************************)
\* The path the calls work on.
UsedPath(fs) == IF fs["default"] # NoFile THEN "default" ELSE "fallback"
C16_WrittenFilePretty ==
  /\ (cacheCall.op # "none" /\ cacheCall.found = {})
       => files["default"] # NoFile /\ files["default"][1].layout = "indent2nl"
  /\ SetDone => files[UsedPath(files)][1].layout = "indent2nl"

(***************************************************************************)
(* C17.  When the cache file holds text that JSON.parse rejects, each of   *)
(* has, get, set and getUrlMetadata raises the parse error, getUrlMetadata *)
(* at its first step, and the files are left as they were.                 *)
(***************************************************************************)
Unparsable(fs) == fs[UsedPath(fs)] # NoFile /\ fs[UsedPath(fs)][1].kind # "json"
C18_FetchedOnce ==
  [][ (xhrCall'.n = xhrCall.n + 1 /\ xhrCall'.url \in DOMAIN returned)
      => /\ xhrCall'.result = Str(returned[xhrCall'.url])
         /\ ~xhrCall'.requested
         /\ xhrCall'.outcome \in {"returned", "resolved"} ]_vars

\* A third fetch returned the first text while the network held another text.
C18_Witness ==
  /\ xhrCall.n = 3
  /\ ~xhrCall.requested
  /\ xhrCall.resp.kind = "response"
  /\ xhrCall.resp.status = 200
  /\ xhrCall.resp.responseText \notin {"", returned[xhrCall.url]}
  /\ xhrCall.result = Str(returned[xhrCall.url])

(***************************************************************************)
(* C19.  A sync call for a URL its cache does not hold returns the text    *)
(* and stores it when the answer has status 200 and a non-empty text; on   *)
(* any other status, an empty text or an exception of the request it       *)
(* returns undefined, leaves the cache as it was and raises nothing.       *)
(***************************************************************************)
C19_SyncHitOnly200NonEmpty ==
  [][ ( /\ xhrCall'.n = xhrCall.n + 1
        /\ xhrCall'.fn = "sync"
        /\ xhrCall'.url \notin DOMAIN xhrCache )
      => /\ xhrCall'.outcome = "returned"
         /\ xhrCall'.requested
         /\ IF /\ xhrCall'.resp.kind = "response"
               /\ xhrCall'.resp.status = 200
               /\ xhrCall'.resp.responseText # ""
            THEN /\ xhrCall'.result = Str(xhrCall'.resp.responseText)
                 /\ xhrCache' = MapSet(xhrCache, xhrCall'.url, xhrCall'.resp.responseText)
            ELSE /\ xhrCall'.result = Undefined
                 /\ xhrCache' = xhrCache ]_vars

\* A sync call whose request raised returned undefined.
C19_Witness ==
  /\ xhrCall.fn = "sync"
  /\ xhrCall.resp.kind = "exception"
  /\ xhrCall.requested
  /\ xhrCall.result = Undefined
  /\ xhrCall.url \notin DOMAIN xhrCache

(***************************************************************************)
(* C20.  For the title and the description of the README's example, the    *)
(* fragment for a github.com link holds the title                          *)
(* `asumo-1xts/vitepress-linkcard' and the description `A VitePress plugin *)
(* to generate a pretty linkcard.', each exactly; for a link to another    *)
(* domain it holds the title and the description as they were given.       *)
(***************************************************************************)
C20_GitHubCleanup ==
  ( /\ dom # NotRendered
    /\ ~dom.threw
    /\ cardData.title = Str(GitHubTitle)
    /\ cardData.description = Str(GitHubDescription) )
  => IF cardOptions.href = "https://github.com/asumo-1xts/vitepress-linkcard"
     THEN /\ ElementText(dom.html, STYLE.title) = "asumo-1xts/vitepress-linkcard"
          /\ ElementText(dom.html, STYLE.description)
               = "A VitePress plugin to generate a pretty linkcard."
     ELSE /\ ElementText(dom.html, STYLE.title) = GitHubTitle
          /\ ElementText(dom.html, STYLE.description) = GitHubDescription


(***************************************************************************)
(* C21.  With the classPrefix option the fragment of the default renderer  *)
(* carries the prefixed class names and none of the inline styles of its   *)
(* parts; without the option it carries the inline styles.                 *)
(***************************************************************************)
CardParts == {"container", "img", "texts", "title", "domain", "description"}
C21_ClassPrefixReplacesStyles ==
  (dom # NotRendered /\ ~dom.threw)
  => IF cardOptions.classPrefix # Undefined
     THEN \A part \in CardParts :
            /\ Contains(dom.html, classNames(cardOptions.classPrefix[1])[part])
            /\ ~Contains(dom.html, STYLE[part])
     ELSE \A part \in CardParts : Contains(dom.html, STYLE[part])

(***************************************************************************)
(* C22.  For every page text whose only relevant tag is a description meta *)
(* tag, parserMetadata returns a record whose description is the content   *)
(* of a description tag of the page, whose title is absent and whose logo  *)
(* is the default logo URL.                                                *)
(***************************************************************************)
IsDescriptionTag(el) ==
  el.tag = "meta" /\ HasAttr(el, "name") /\ AttrOf(el, "name") = "description"
C22_DescriptionOnly ==
  ( /\ parsed # Pending
    /\ \E i \in 1..Len(page) : IsDescriptionTag(page[i])
    /\ \A i \in 1..Len(page) : IsDescriptionTag(page[i]) \/ page[i] = Paragraph )
  => /\ parsed.kind = "record"
     /\ \E i \in 1..Len(page) :
          /\ IsDescriptionTag(page[i])
          /\ parsed.value.description = Str(AttrOf(page[i], "content"))
     /\ parsed.value.title = Undefined
     /\ parsed.value.logo = Str(DEFAULT_LOGO)

(***************************************************************************)
(* C23.  When the logo candidate of the page is an absolute URL,           *)
(* parserMetadata returns a record whose logo is that URL, whatever the    *)
(* source URL is.  The candidate is the first image meta tag of the page   *)
(* or, when the page has none, its first icon link.                        *)
(***************************************************************************)
IsImageTag(el) == el \in {OgImageAbsolute, OgImageRelative, OgImageNoContent}
IsIconTag(el) == el \in {IconRelative, IconAbsolute}
\* The tag the logo is taken from, or Paragraph when the page has none.
LogoTag ==
  LET images == {i \in 1..Len(page) : IsImageTag(page[i])}
      icons == {i \in 1..Len(page) : IsIconTag(page[i])}
  IN  IF images # {} THEN page[MinOf(images)]
      ELSE IF icons # {} THEN page[MinOf(icons)]
      ELSE Paragraph
AbsoluteLogoOf(el) ==
  IF el = OgImageAbsolute THEN "https://cdn.example.com/a.png" ELSE "https://example.com/i.ico"
C23_AbsoluteLogoUnchanged ==
  (parsed # Pending /\ LogoTag \in {OgImageAbsolute, IconAbsolute})
  => /\ parsed.kind = "record"
     /\ parsed.value.logo = Str(AbsoluteLogoOf(LogoTag))
C23_Witness ==
  /\ parsed.kind = "record"
  /\ LogoTag = OgImageAbsolute
  /\ srcUrl = "example.com/post"
  /\ parsed.value.logo = Str("https://cdn.example.com/a.png")

(***************************************************************************)
(* C24.  link_open treats a link as a card link exactly when its href is   *)
(* the marker @: immediately followed by a letter or a digit, whether or   *)
(* not what follows the marker is a URL.  For a card link it looks up the  *)
(* href without the marker, stores a fetched record under it and the card  *)
(* of the default renderer carries it as href.  Every other link is        *)
(* rendered by renderToken with no lookup and no change of the caches.     *)
(***************************************************************************)
\* What follows the first two characters of the href.
AfterMarker(href) == SubSeq(href, 3, Len(href))
MarkerThenLetterOrDigit(href) ==
  StartsAt(href, 1, "@:") /\ Ch(href, 3) \in Letter \cup Digit
MarkerThenUrl(href) ==
  StartsAt(href, 1, "@:") /\ extractUrl(AfterMarker(href)).kind = "URL"
\* The step of link_open on a link that is, or is not, to be a card link.
LinkOpenStep(href, cardLink) ==
  IF cardLink
  THEN /\ lastCall'.url = Str(AfterMarker(href))
       /\ lastCall'.calls # <<>>
       /\ lastCall'.calls = MissOrder
            => AfterMarker(href) \in DOMAIN CacheEntries(files')
       /\ (lastCall'.isCard /\ pluginOptions.render = Undefined)
            => Contains(emitted'[Len(emitted')].html,
                        " href=\"" \o AfterMarker(href) \o "\" ")
  ELSE /\ lastCall'.calls = <<>>
       /\ ~lastCall'.isCard
       /\ files' = files /\ xhrCache' = xhrCache /\ tokens' = tokens
       /\ result' = result \o "<a href=\"" \o href \o "\">"
C24_MarkerThenLetterOrDigit ==
  [][ lastCall'.index = idx
      => LinkOpenStep(WrittenHref(tokens[idx]),
                      MarkerThenLetterOrDigit(WrittenHref(tokens[idx]))) ]_vars
\* The statement with `followed by a URL'.
C24_MarkerThenUrl ==
  [][ lastCall'.index = idx
      => LinkOpenStep(WrittenHref(tokens[idx]),
                      MarkerThenUrl(WrittenHref(tokens[idx]))) ]_vars
\* A link written with the marker and a URL was rendered as a card of the
\* default renderer, its record fetched and stored.
C24_Witness ==
  /\ lastCall.index = 1
  /\ WrittenHref(tokens[1]) = "@:" \o CardUrl2
  /\ lastCall.isCard
  /\ lastCall.calls = MissOrder
  /\ pluginOptions.render = Undefined
  /\ idx > Len(tokens)

(***************************************************************************)
(* C25.  When the request of getUrlMetadata yields no page text, or yields *)
(* a page text with no title, description, image or icon tag, from which   *)
(* the extractor is to yield null, getUrlMetadata returns null and the     *)
(* entries of the cache file are the same as before the call.  A cache     *)
(* file the call had to create counts as unchanged.                        *)
(***************************************************************************)
\* The entries of the cache file, those of a file still to be created being
\* the ones it is created with.
EntriesOrInitial(fs) ==
  IF \A p \in Paths : fs[p] = NoFile THEN initialData ELSE CacheEntries(fs)
NoTagsText == PageText(<<Paragraph>>)
C25_FailedFetchWritesNothing ==
  [][ ( /\ cacheCall'.n = cacheCall.n + 1
        /\ cacheCall'.op = "getUrlMetadata"
        /\ cacheCall'.resp # NoResponse
        /\ FetchFailed(cacheCall'.resp) )
      => /\ ~cacheCall'.threw
         /\ cacheCall'.value = Undefined
         /\ EntriesOrInitial(files') = EntriesOrInitial(files) ]_vars

(***************************************************************************)
(* The meta tag a field is taken from: the first meta tag of the page with *)
(* an attribute value ending in the field's word, Paragraph when the page  *)
(* has none.                                                               *)
(***************************************************************************)
MetaTagFor(word) ==
  LET hits == {i \in 1..Len(page) :
                 /\ page[i].tag = "meta"
                 /\ \E k \in 1..Len(page[i].attrs) : EndsWith(page[i].attrs[k][2], word)}
  IN  IF hits = {} THEN Paragraph ELSE page[MinOf(hits)]

(***************************************************************************)
(* C26.  When parserMetadata returns a record and a title or description   *)
(* meta tag with a content attribute is matched, the title or description  *)
(* of the record is the value of that content attribute, whatever the      *)
(* order of the attributes of the tag.                                     *)
(***************************************************************************)
C26_ContentVerbatim ==
  parsed.kind = "record"
  => /\ HasAttr(MetaTagFor("title"), "content")
          => parsed.value.title = Str(AttrOf(MetaTagFor("title"), "content"))
     /\ HasAttr(MetaTagFor("description"), "content")
          => parsed.value.description = Str(AttrOf(MetaTagFor("description"), "content"))

(***************************************************************************)
(* C27.  When the first meta title tag of the page has no content          *)
(* attribute, the title of the record is absent even if the page has a     *)
(* <title> element; when the first image meta tag has no content           *)
(* attribute, the icon links of the page are not used and the logo is the  *)
(* default logo.                                                           *)
(***************************************************************************)
C27_NoFallbackAfterMatch ==
  /\ (parsed.kind = "record" /\ MetaTagFor("title") = MetaTitleNoContent)
       => parsed.value.title = Undefined
  /\ (parsed # Pending /\ MetaTagFor("image") = OgImageNoContent)
       => parsed.kind = "record" /\ parsed.value.logo = Str(DEFAULT_LOGO)
\* A page with a meta title tag without content and a <title> element was parsed.
C27_Witness ==
  /\ page = <<MetaTitleNoContent, PlainTitle>>
  /\ parsed.kind = "record"
  /\ parsed.value.title = Undefined

(***************************************************************************)
(* C28.  Every card link of an inline token sequence whose metadata is     *)
(* available is rendered as a card of its own: a card link whose URL the   *)
(* cache file held from the start is never skipped or rendered as a link,  *)
(* however many card links the sequence holds.                             *)
(***************************************************************************)
\* The cache file held the URL of the card link before renderInline began:
\* only the files a run starts from hold CachedEntry.
CachedFromStart(tok) ==
  /\ WrittenUrl(tok) \in DOMAIN CacheEntries(files)
  /\ CacheEntries(files)[WrittenUrl(tok)] = CachedEntry
C28_EveryCardLinkIsACard ==
  \A m \in 1..Len(emitted) :
    ( /\ CardLinkAt(tokens, emitted[m].index)
      /\ CachedFromStart(tokens[emitted[m].index]) )
    => emitted[m].how = "card"

(***************************************************************************)
(* C29.  xhr.async is equivalent to xhr.sync: whatever the URL, the state  *)
(* of the in-memory cache and the answer of the network, the promise of    *)
(* async is resolved, with the value sync returns for the same answer, and *)
(* the in-memory cache is left as sync leaves it.                          *)
(***************************************************************************)
C29_AsyncAsSync ==
  [][ (xhrCall'.n = xhrCall.n + 1 /\ xhrCall'.fn = "async")
      => \E s \in {sync(xhrCache, xhrCall'.url, xhrCall'.resp)} :
           /\ xhrCall'.outcome = "resolved"
           /\ xhrCall'.result = s.result
           /\ xhrCache' = s.xc ]_vars
\* The same for the answers with status 200 and a text that is not empty,
\* and for the URLs the in-memory cache holds.
C29_AsyncAsSyncOnHit ==
  [][ ( /\ xhrCall'.n = xhrCall.n + 1 /\ xhrCall'.fn = "async"
        /\ \/ xhrCall'.url \in DOMAIN xhrCache
           \/ ~FetchFailed(xhrCall'.resp) )
      => \E s \in {sync(xhrCache, xhrCall'.url, xhrCall'.resp)} :
           /\ xhrCall'.outcome = "resolved"
           /\ xhrCall'.result = s.result
           /\ xhrCache' = s.xc ]_vars

(***************************************************************************)
(* C30.  The promise generateCard returns eventually settles, for every    *)
(* URL and every answer of the network, so that the caller awaiting it     *)
(* runs on: it resolves when the page is fetched and yields metadata, and  *)
(* it settles as well when the fetch fails or the extraction yields no     *)
(* record.                                                                 *)
(***************************************************************************)
C30_PromiseSettles ==
  \A i \in 1..MaxGenerations : (i \in DOMAIN promises) ~> (i \in resumed)
\* The part on the pages that are fetched and yield a record.
C30_ResolvesOnMetadata ==
  \A i \in 1..MaxGenerations :
    (i \in DOMAIN promises /\ promises[i].outcome = "resolved") ~> (i \in resumed)

=============================================================================
